---- MODULE Spec2Model ----
(***************************************************************************)
(* VARC Practice: the attempt state machine of the quiz page (js/app.js),  *)
(* the persistence layer it writes through (js/storage.js) and the page    *)
(* flow selection -> quiz -> results (js/selection.js, js/results.js).     *)
(*                                                                         *)
(* localStorage is the record ls, one field per key of StorageManager.KEYS *)
(* that the three pages use.  An optional value (a key that may be absent, *)
(* a null) is a sequence of length at most one: <<>> is absent, <<v>> is v.*)
(* A JSON object used as a map (answers, statuses, attempts, tracking) is  *)
(* a function whose DOMAIN is the set of keys present.                     *)
(***************************************************************************)
EXTENDS Integers, Sequences, FiniteSets, TLC

VARIABLES
    ls,       \* localStorage, as the values StorageManager's getters and setters keep in it
    page,     \* the document shown: "index", "quiz" or "results"
    app,      \* the VARCApp instance of the quiz page
    nav,      \* a navigation requested through window.location.href, not yet committed
    results,  \* the ResultsPage instance (URL parameters setId and attempt)
    now,      \* Date.now()
    items     \* localStorage as the texts stored under its keys, for save, load,
              \* remove and clearAll and the scripts that write to it directly

vars == <<ls, page, app, nav, results, now, items>>

\* ------------------------------------------------------------------------
\* Bounds of the exploration
\* ------------------------------------------------------------------------
MaxSubmits == 1       \* attempt records in the history, all sets together (Spec)
MaxAttempts == 2      \* the same, where the history is explored (SpecHistory)
MaxSeconds == 2       \* seconds that pass on the clock (SpecTimer)

\* ------------------------------------------------------------------------
\* Values
\* ------------------------------------------------------------------------
None == <<>>
Some(v) == <<v>>
IsSome(o) == Len(o) > 0
Get(o) == o[1]

EmptyMap == [k \in {} |-> TRUE]
Put(m, k, v) == [x \in (DOMAIN m) \cup {k} |-> IF x = k THEN v ELSE m[x]]
Delete(m, k) == [x \in (DOMAIN m) \ {k} |-> m[x]]

\* an answer is an option index (a number) or a typed text (a string, here the
\* sequence of its characters); the field not used by the kind has a fixed filler
Choice(i) == [kind |-> "choice", index |-> i, text |-> <<>>]
Text(s) == [kind |-> "text", index |-> -1, text |-> s]

Statuses == {"not-visited", "not-answered", "answered", "review", "review-answered"}

\* ------------------------------------------------------------------------
\* Question data (data/rc-passages.json): two RC sets.  Set 1 has a
\* multiple-choice and a type-in question, set 2 one multiple-choice question.
\* ------------------------------------------------------------------------
Questions ==
    << [id |-> 1, passageId |-> 1, type |-> "MCQ", options |-> 2,
        question |-> "q1", explanation |-> "e1", tags |-> {"inference"},
        correctAnswer |-> Choice(1),
        marks |-> Some([positive |-> 3, negative |-> 1])],
       [id |-> 2, passageId |-> 1, type |-> "TITA", options |-> 0,
        question |-> "q2", explanation |-> "e2", tags |-> {"tone"},
        correctAnswer |-> Text(<<"a">>),
        marks |-> Some([positive |-> 3, negative |-> 1])],
       [id |-> 3, passageId |-> 2, type |-> "MCQ", options |-> 2,
        question |-> "q3", explanation |-> "e3", tags |-> {"inference"},
        correctAnswer |-> Choice(0),
        marks |-> None] >>

SetIds == {Questions[i].passageId : i \in DOMAIN Questions}

\* digits handled by handleKeyPress ('1' .. '4')
DigitKeys == 1..4

\* the digit keys pressed in Spec: the first and the last one
SomeDigits == {1, 4}

\* the typed inputs explored together with a longer history
FewTexts == { <<>>, <<"a">> }

\* values typed into the type-in field
TitaInputs == { <<>>, <<" ">>, <<"a">>, <<" ", "a", " ">> }

\* String.prototype.trim
RECURSIVE TrimLeft(_)
TrimLeft(s) == IF s # <<>> /\ Head(s) = " " THEN TrimLeft(Tail(s)) ELSE s
RECURSIVE TrimRight(_)
TrimRight(s) ==
    IF s # <<>> /\ s[Len(s)] = " " THEN TrimRight(SubSeq(s, 1, Len(s) - 1)) ELSE s
Trim(s) == TrimRight(TrimLeft(s))

\* Array.prototype.filter
RECURSIVE FilterByPassage(_, _)
FilterByPassage(qs, setId) ==
    IF qs = <<>> THEN <<>>
    ELSE IF Head(qs).passageId = setId
         THEN <<Head(qs)>> \o FilterByPassage(Tail(qs), setId)
         ELSE FilterByPassage(Tail(qs), setId)

\* Utils.isValidIndex(array, index), indices are 0-based
IsValidIndex(arr, index) == index \in Int /\ index >= 0 /\ index < Len(arr)

\* the question at 0-based index i
QuestionAt(qs, i) == qs[i + 1]

\* ------------------------------------------------------------------------
\* StorageManager
\* ------------------------------------------------------------------------
EmptyStore ==
    [ answers      |-> EmptyMap,   \* USER_ANSWERS
      statuses     |-> EmptyMap,   \* QUESTION_STATUS
      timer        |-> None,       \* TIMER_STATE
      completed    |-> None,       \* TEST_COMPLETED
      current      |-> None,       \* CURRENT_QUESTION
      questions    |-> <<>>,       \* QUESTIONS_DATA
      selected     |-> None,       \* SELECTED_RC_SET
      attempts     |-> EmptyMap,   \* RC_SET_ATTEMPTS
      tracking     |-> EmptyMap,   \* QUESTION_TIME_TRACKING
      attemptStart |-> None,       \* CURRENT_ATTEMPT_START
      userName     |-> None ]      \* USER_NAME

SaveAnswer(s, questionIndex, answer) ==
    [s EXCEPT !.answers = Put(s.answers, questionIndex, answer)]


\* getAnswer written as `answers[questionIndex] || null`: the answer 0 reads as none
GetAnswerTruthy(s, questionIndex) ==
    IF questionIndex \in DOMAIN s.answers /\ s.answers[questionIndex] # Choice(0)
    THEN Some(s.answers[questionIndex]) ELSE None

GetAnswer(s, questionIndex) ==
    IF questionIndex \in DOMAIN s.answers THEN Some(s.answers[questionIndex]) ELSE None

ClearAnswer(s, questionIndex) ==
    [s EXCEPT !.answers = Delete(s.answers, questionIndex)]

SaveQuestionStatus(s, questionIndex, status) ==
    [s EXCEPT !.statuses = Put(s.statuses, questionIndex, status)]

GetQuestionStatus(s, questionIndex) ==
    IF questionIndex \in DOMAIN s.statuses THEN s.statuses[questionIndex]
    ELSE "not-visited"

InitializeStatuses(s, totalQuestions) ==
    IF DOMAIN s.statuses = {}
    THEN [s EXCEPT !.statuses = [i \in 0..(totalQuestions - 1) |-> "not-visited"]]
    ELSE s

SaveCurrentQuestion(s, index) == [s EXCEPT !.current = Some(index)]

GetCurrentQuestion(s) == IF IsSome(s.current) THEN Get(s.current) ELSE 0

MarkTestCompleted(s) == [s EXCEPT !.completed = Some(TRUE)]

IsTestCompleted(s) == IF IsSome(s.completed) THEN Get(s.completed) ELSE FALSE

SaveQuestionsData(s, questions) == [s EXCEPT !.questions = questions]

GetQuestionsData(s) == s.questions

\* one counter of getStatistics: the indices below totalQuestions with that status
CountStatus(s, totalQuestions, status) ==
    Cardinality({i \in 0..(totalQuestions - 1) : GetQuestionStatus(s, i) = status})

GetStatistics(s, totalQuestions) ==
    [ answered       |-> CountStatus(s, totalQuestions, "answered"),
      notAnswered    |-> CountStatus(s, totalQuestions, "not-answered"),
      notVisited     |-> CountStatus(s, totalQuestions, "not-visited"),
      review         |-> CountStatus(s, totalQuestions, "review"),
      reviewAnswered |-> CountStatus(s, totalQuestions, "review-answered") ]


\* resetTest that forgets to remove the question time tracking
ResetTestKeepingTracking(s, totalQuestions) ==
    InitializeStatuses(
        [s EXCEPT !.answers = EmptyMap, !.statuses = EmptyMap, !.timer = None,
                  !.completed = None, !.current = None, !.attemptStart = None],
        totalQuestions)

\* resetTest that also removes the selected set and the user name
ResetTestForgettingUser(s, totalQuestions) ==
    InitializeStatuses(
        [s EXCEPT !.answers = EmptyMap, !.statuses = EmptyMap, !.timer = None,
                  !.completed = None, !.current = None, !.tracking = EmptyMap,
                  !.attemptStart = None, !.selected = None, !.userName = None],
        totalQuestions)

ResetTest(s, totalQuestions) ==
    InitializeStatuses(
        [s EXCEPT !.answers = EmptyMap, !.statuses = EmptyMap, !.timer = None,
                  !.completed = None, !.current = None, !.tracking = EmptyMap,
                  !.attemptStart = None],
        totalQuestions)

SaveSelectedRCSet(s, setId) == [s EXCEPT !.selected = Some(setId)]

GetSelectedRCSet(s) == s.selected

ClearSelectedRCSet(s) == [s EXCEPT !.selected = None]

GetRCSetAttempts(s, setId) ==
    IF setId \in DOMAIN s.attempts THEN s.attempts[setId] ELSE <<>>


\* saveRCSetAttempt that stores the new record as the whole list of the set
SaveRCSetAttemptOverwriting(s, setId, attemptData, t) ==
    [s EXCEPT !.attempts =
        Put(s.attempts, setId, <<[data |-> attemptData, timestamp |-> t]>>)]

SaveRCSetAttempt(s, setId, attemptData, t) ==
    [s EXCEPT !.attempts =
        Put(s.attempts, setId,
            Append(GetRCSetAttempts(s, setId), [data |-> attemptData, timestamp |-> t]))]

\* a tracking entry is {startTime?, totalTime}
StartQuestionTimer(s, questionIndex, t) ==
    [s EXCEPT !.tracking =
        Put(s.tracking, questionIndex,
            [ startTime |-> Some(t),
              totalTime |-> IF questionIndex \in DOMAIN s.tracking
                            THEN s.tracking[questionIndex].totalTime ELSE 0 ])]

HasPendingStart(s, questionIndex) ==
    /\ questionIndex \in DOMAIN s.tracking
    /\ IsSome(s.tracking[questionIndex].startTime)
    /\ Get(s.tracking[questionIndex].startTime) # 0

StopQuestionTimer(s, questionIndex, t) ==
    IF HasPendingStart(s, questionIndex)
    THEN [s EXCEPT !.tracking =
            Put(s.tracking, questionIndex,
                [ startTime |-> None,
                  totalTime |-> s.tracking[questionIndex].totalTime
                                + (t - Get(s.tracking[questionIndex].startTime)) ])]
    ELSE s

GetAllQuestionTimes(s, t) ==
    [ i \in DOMAIN s.tracking |->
        s.tracking[i].totalTime
        + (IF IsSome(s.tracking[i].startTime) /\ Get(s.tracking[i].startTime) # 0
           THEN t - Get(s.tracking[i].startTime) ELSE 0) ]

SaveAttemptStartTime(s, t) == [s EXCEPT !.attemptStart = Some(t)]

GetAttemptStartTime(s) == s.attemptStart

\* ------------------------------------------------------------------------
\* VARCApp (quiz page)
\* ------------------------------------------------------------------------
\* phase: "none" no instance; "stopped" init returned before bindEvents;
\* "loading" init awaits the fetch of loadQuestions; "ready" init has finished.
\* rendered: the options the DOM shows, <<[index, handlers]>> after loadOptions.
\* timerInterval: this.timerInterval holds a handle; intervals: the intervals set
\* with setInterval by this page and not cleared.
NoApp ==
    [ questions |-> <<>>, rcSetId |-> 0, currentQuestionIndex |-> 0,
      isReviewMode |-> FALSE, isTestSubmitted |-> FALSE, timerInterval |-> FALSE,
      intervals |-> 0, totalElapsedTime |-> 0, timerStartTime |-> None,
      remainingTime |-> None, rendered |-> None, phase |-> "none" ]

NoNav == None
NavTo(target, setId, attempt) ==
    Some([to |-> target, setId |-> setId, attempt |-> attempt])

\* the pair (localStorage, app) a handler works on
World(s, a) == [s |-> s, a |-> a]

\* phase "failed": init found no question for the set and returned after bindEvents
HandlersBound(a) == a.phase \in {"loading", "ready", "failed"}

LoadOptions(a, index) ==
    [a EXCEPT !.rendered = Some([index |-> index, handlers |-> ~a.isReviewMode])]


\* loadQuestion that marks the displayed question not-answered whatever its status
LoadQuestionAlwaysNotAnswered(w, index, t) ==
    IF ~IsValidIndex(w.a.questions, index) THEN w
    ELSE
      LET s1 == IF IsValidIndex(w.a.questions, w.a.currentQuestionIndex)
                THEN StopQuestionTimer(w.s, w.a.currentQuestionIndex, t)
                ELSE w.s
          a1 == [w.a EXCEPT !.currentQuestionIndex = index]
          s2 == IF ~a1.isTestSubmitted THEN StartQuestionTimer(s1, index, t) ELSE s1
          a2 == LoadOptions(a1, index)
          s3 == SaveQuestionStatus(s2, index, "not-answered")
      IN  World(SaveCurrentQuestion(s3, index), a2)

LoadQuestion(w, index, t) ==
    IF ~IsValidIndex(w.a.questions, index) THEN w
    ELSE
      LET s1 == IF IsValidIndex(w.a.questions, w.a.currentQuestionIndex)
                THEN StopQuestionTimer(w.s, w.a.currentQuestionIndex, t)
                ELSE w.s
          a1 == [w.a EXCEPT !.currentQuestionIndex = index]
          s2 == IF ~a1.isTestSubmitted THEN StartQuestionTimer(s1, index, t) ELSE s1
          a2 == LoadOptions(a1, index)
          s3 == IF GetQuestionStatus(s2, index) = "not-visited"
                THEN SaveQuestionStatus(s2, index, "not-answered")
                ELSE s2
      IN  World(SaveCurrentQuestion(s3, index), a2)


\* selectOption that writes a status name the palette does not know
SelectOptionMisspelt(w, optIndex) ==
    IF w.a.isReviewMode THEN w
    ELSE
      LET i  == w.a.currentQuestionIndex
          s1 == SaveAnswer(w.s, i, Choice(optIndex))
      IN  World(IF GetQuestionStatus(s1, i) = "review"
                THEN SaveQuestionStatus(s1, i, "review_answered")
                ELSE SaveQuestionStatus(s1, i, "answered"),
                w.a)

SelectOption(w, optIndex) ==
    IF w.a.isReviewMode THEN w
    ELSE
      LET i  == w.a.currentQuestionIndex
          s1 == SaveAnswer(w.s, i, Choice(optIndex))
      IN  World(IF GetQuestionStatus(s1, i) = "review"
                THEN SaveQuestionStatus(s1, i, "review-answered")
                ELSE SaveQuestionStatus(s1, i, "answered"),
                w.a)

\* handleTITAInput that keeps the stored answer when the input is emptied
HandleTITAInputKeepingAnswer(w, value) ==
    IF w.a.isReviewMode THEN w
    ELSE
      LET i == w.a.currentQuestionIndex IN
      IF Trim(value) # <<>>
      THEN LET s1 == SaveAnswer(w.s, i, Text(Trim(value)))
           IN  World(IF GetQuestionStatus(s1, i) = "review"
                     THEN SaveQuestionStatus(s1, i, "review-answered")
                     ELSE SaveQuestionStatus(s1, i, "answered"),
                     w.a)
      ELSE World(IF GetQuestionStatus(w.s, i) = "review-answered"
                 THEN SaveQuestionStatus(w.s, i, "review")
                 ELSE SaveQuestionStatus(w.s, i, "not-answered"),
                 w.a)

HandleTITAInput(w, value) ==
    IF w.a.isReviewMode THEN w
    ELSE
      LET i == w.a.currentQuestionIndex IN
      IF Trim(value) # <<>>
      THEN LET s1 == SaveAnswer(w.s, i, Text(Trim(value)))
           IN  World(IF GetQuestionStatus(s1, i) = "review"
                     THEN SaveQuestionStatus(s1, i, "review-answered")
                     ELSE SaveQuestionStatus(s1, i, "answered"),
                     w.a)
      ELSE LET s1 == ClearAnswer(w.s, i)
           IN  World(IF GetQuestionStatus(s1, i) = "review-answered"
                     THEN SaveQuestionStatus(s1, i, "review")
                     ELSE SaveQuestionStatus(s1, i, "not-answered"),
                     w.a)

NavigateToQuestion(w, index, t) ==
    IF index < 0 \/ index >= Len(w.a.questions) THEN w
    ELSE LoadQuestion(w, index, t)

\* a JavaScript number given in halves: h stands for the number h / 2
IsInteger(h) == h % 2 = 0

\* the numbers a caller passes to navigateToQuestion: -1, -0.5, 0, 0.5, ... 3
NavNumbers == -2..(2 * Len(Questions))


\* navigateToQuestion that rounds a fractional number down to an index
NavigateToNumberRounding(w, h, t) ==
    IF h < 0 \/ h >= 2 * Len(w.a.questions) THEN w
    ELSE LoadQuestion(w, h \div 2, t)

\* navigateToQuestion called with the number h / 2: its own range test, then the
\* Number.isInteger test of Utils.isValidIndex at the head of loadQuestion
NavigateToNumber(w, h, t) ==
    IF h < 0 \/ h >= 2 * Len(w.a.questions) THEN w
    ELSE IF ~IsInteger(h) THEN w
    ELSE LoadQuestion(w, h \div 2, t)

SaveAndNext(w, t) ==
    IF w.a.currentQuestionIndex < Len(w.a.questions) - 1
    THEN LoadQuestion(w, w.a.currentQuestionIndex + 1, t)
    ELSE w


\* markForReviewAndNext that tests the answer for truthiness (0 counts as no answer)
MarkForReviewAndNextTruthy(w, t) ==
    LET i  == w.a.currentQuestionIndex
        answer == GetAnswer(w.s, i)
        s1 == IF IsSome(answer) /\ Get(answer) # Choice(0)
              THEN SaveQuestionStatus(w.s, i, "review-answered")
              ELSE SaveQuestionStatus(w.s, i, "review")
        w1 == World(s1, w.a)
    IN  IF i < Len(w.a.questions) - 1 THEN LoadQuestion(w1, i + 1, t) ELSE w1

\* markForReviewAndNext that moves on first and marks the question it arrives at
MarkForReviewAndNextAfterMove(w, t) ==
    LET i  == w.a.currentQuestionIndex
        w1 == IF i < Len(w.a.questions) - 1 THEN LoadQuestion(w, i + 1, t) ELSE w
        j  == w1.a.currentQuestionIndex
    IN  World(IF IsSome(GetAnswer(w1.s, j))
              THEN SaveQuestionStatus(w1.s, j, "review-answered")
              ELSE SaveQuestionStatus(w1.s, j, "review"),
              w1.a)

MarkForReviewAndNext(w, t) ==
    LET i  == w.a.currentQuestionIndex
        s1 == IF IsSome(GetAnswer(w.s, i))
              THEN SaveQuestionStatus(w.s, i, "review-answered")
              ELSE SaveQuestionStatus(w.s, i, "review")
        w1 == World(s1, w.a)
    IN  IF i < Len(w.a.questions) - 1 THEN LoadQuestion(w1, i + 1, t) ELSE w1


\* clearResponse that puts a cleared question back to not-visited
ClearResponseToNotVisited(w) ==
    IF w.a.isReviewMode THEN w
    ELSE IF ~IsValidIndex(w.a.questions, w.a.currentQuestionIndex) THEN w
    ELSE
      LET i  == w.a.currentQuestionIndex
          s1 == ClearAnswer(w.s, i)
          s2 == IF GetQuestionStatus(s1, i) = "review-answered"
                THEN SaveQuestionStatus(s1, i, "review")
                ELSE SaveQuestionStatus(s1, i, "not-visited")
      IN  World(s2, LoadOptions(w.a, i))

ClearResponse(w) ==
    IF w.a.isReviewMode THEN w
    ELSE IF ~IsValidIndex(w.a.questions, w.a.currentQuestionIndex) THEN w
    ELSE
      LET i  == w.a.currentQuestionIndex
          s1 == ClearAnswer(w.s, i)
          s2 == IF GetQuestionStatus(s1, i) = "review-answered"
                THEN SaveQuestionStatus(s1, i, "review")
                ELSE SaveQuestionStatus(s1, i, "not-answered")
      IN  World(s2, LoadOptions(w.a, i))

\* milliseconds in a second, the period of the interval
Second == 1000

StartTimer(a, t) ==
    [a EXCEPT !.intervals = (IF a.timerInterval THEN @ - 1 ELSE @) + 1,
              !.timerInterval = TRUE,
              !.timerStartTime = Some(t)]

\* the callback of the interval set by startTimer
TimerCallback(a, t) ==
    [a EXCEPT !.totalElapsedTime = (t - Get(a.timerStartTime)) \div Second]


\* stopTimer that stops the question timer and leaves the interval running
StopTimerKeepingInterval(w, t) ==
    IF w.a.currentQuestionIndex >= 0
    THEN World(StopQuestionTimer(w.s, w.a.currentQuestionIndex, t), w.a)
    ELSE w

StopTimer(w, t) ==
    LET a1 == IF w.a.timerInterval
              THEN [w.a EXCEPT !.intervals = @ - 1, !.timerInterval = FALSE]
              ELSE w.a
    IN  IF w.a.currentQuestionIndex >= 0
        THEN World(StopQuestionTimer(w.s, w.a.currentQuestionIndex, t), a1)
        ELSE World(w.s, a1)

PositiveMarks(q) ==
    IF IsSome(q.marks) /\ Get(q.marks).positive # 0 THEN Get(q.marks).positive ELSE 3

NegativeMarks(q) ==
    IF IsSome(q.marks) /\ Get(q.marks).negative # 0 THEN Get(q.marks).negative ELSE 1

Max(a, b) == IF a >= b THEN a ELSE b

\* Math.round(n / d * 100) for n >= 0, d > 0
RoundPercent(n, d) == (200 * n + d) \div (2 * d)

\* the forEach of calculateResults over the first k questions
RECURSIVE Tally(_, _, _)

\* the forEach with the floor at zero applied to every question's contribution
RECURSIVE TallyFlooredPerQuestion(_, _, _)
TallyFlooredPerQuestion(qs, s, k) ==
    IF k = 0
    THEN [correct |-> 0, incorrect |-> 0, unattempted |-> 0, totalMarks |-> 0, maxMarks |-> 0]
    ELSE
      LET r == TallyFlooredPerQuestion(qs, s, k - 1)
          q == qs[k]
          userAnswer == GetAnswer(s, k - 1)
          r1 == [r EXCEPT !.maxMarks = @ + PositiveMarks(q)]
      IN  IF ~IsSome(userAnswer) THEN [r1 EXCEPT !.unattempted = @ + 1]
          ELSE IF Get(userAnswer) = q.correctAnswer
               THEN [r1 EXCEPT !.correct = @ + 1, !.totalMarks = @ + PositiveMarks(q)]
               ELSE [r1 EXCEPT !.incorrect = @ + 1]

Tally(qs, s, k) ==
    IF k = 0
    THEN [correct |-> 0, incorrect |-> 0, unattempted |-> 0, totalMarks |-> 0, maxMarks |-> 0]
    ELSE
      LET r == Tally(qs, s, k - 1)
          q == qs[k]
          userAnswer == GetAnswer(s, k - 1)
          r1 == [r EXCEPT !.maxMarks = @ + PositiveMarks(q)]
      IN  IF ~IsSome(userAnswer) THEN [r1 EXCEPT !.unattempted = @ + 1]
          ELSE IF Get(userAnswer) = q.correctAnswer
               THEN [r1 EXCEPT !.correct = @ + 1, !.totalMarks = @ + PositiveMarks(q)]
               ELSE [r1 EXCEPT !.incorrect = @ + 1, !.totalMarks = @ - NegativeMarks(q)]

CalculateResults(qs, s) ==
    LET r == Tally(qs, s, Len(qs))
    IN  [ correct |-> r.correct, incorrect |-> r.incorrect, unattempted |-> r.unattempted,
          totalMarks |-> Max(0, r.totalMarks), maxMarks |-> r.maxMarks,
          totalQuestions |-> Len(qs),
          percentage |-> IF r.maxMarks > 0
                         THEN RoundPercent(Max(0, r.totalMarks), r.maxMarks) ELSE 0 ]

\* the attemptData object built by submitTest
AttemptData(w, t) ==
    LET r == CalculateResults(w.a.questions, w.s)
        start == GetAttemptStartTime(w.s)
    IN  [ score |-> r.totalMarks, totalMarks |-> r.maxMarks, correct |-> r.correct,
          incorrect |-> r.incorrect, unattempted |-> r.unattempted,
          totalTime |-> IF IsSome(start) /\ Get(start) # 0
                        THEN (t - Get(start)) \div 1000 ELSE w.a.totalElapsedTime,
          questionTimes |-> GetAllQuestionTimes(w.s, t),
          questions |-> [ k \in 1..Len(w.a.questions) |->
                            [ id |-> w.a.questions[k].id,
                              userAnswer |-> GetAnswer(w.s, k - 1),
                              correctAnswer |-> w.a.questions[k].correctAnswer,
                              question |-> w.a.questions[k].question,
                              options |-> w.a.questions[k].options,
                              explanation |-> w.a.questions[k].explanation ] ] ]

\* submitTest: the world after it and the navigation it requests
SubmitTest(w, t) ==
    LET w1 == StopTimer(w, t)
        attemptData == AttemptData(w1, t)
        s2 == MarkTestCompleted(SaveRCSetAttempt(w1.s, w1.a.rcSetId, attemptData, t))
    IN  [ s |-> s2, a |-> [w1.a EXCEPT !.isTestSubmitted = TRUE],
          nav |-> NavTo("results", w1.a.rcSetId, Some(attemptData)) ]

EnterReviewMode(w, t) ==
    LoadQuestion(World(w.s, [w.a EXCEPT !.isReviewMode = TRUE]),
                 w.a.currentQuestionIndex, t)

PerformTestReset(w, t) ==
    LET s1 == ResetTest(w.s, Len(w.a.questions))
        a1 == [w.a EXCEPT !.isTestSubmitted = FALSE, !.isReviewMode = FALSE,
                          !.remainingTime = Some(40 * 60), !.currentQuestionIndex = 0]
        w2 == LoadQuestion(World(s1, a1), 0, t)
    IN  World(w2.s, StartTimer(w2.a, t))


\* restoreState that starts every page load at the first question
RestoreStateFromStart(w) ==
    LET done == IsTestCompleted(w.s)
        s1 == IF done THEN ResetTest(w.s, Len(w.a.questions)) ELSE w.s
    IN  World(s1, [w.a EXCEPT !.isTestSubmitted = FALSE, !.currentQuestionIndex = 0])

RestoreState(w) ==
    LET done == IsTestCompleted(w.s)
        s1 == IF done THEN ResetTest(w.s, Len(w.a.questions)) ELSE w.s
        c  == GetCurrentQuestion(s1)
    IN  World(s1, [w.a EXCEPT !.isTestSubmitted = FALSE,
                              !.currentQuestionIndex =
                                  IF c >= Len(w.a.questions) THEN 0 ELSE c])

SaveTimerState(s, remainingSeconds, t) ==
    [s EXCEPT !.timer = Some([remainingSeconds |-> remainingSeconds, savedAt |-> t])]

SaveState(w, t) ==
    LET s1 == SaveCurrentQuestion(w.s, w.a.currentQuestionIndex)
    IN  World(IF ~w.a.isTestSubmitted THEN SaveTimerState(s1, w.a.remainingTime, t) ELSE s1,
              w.a)

\* init that restores the state and starts the clock before it looks for the
\* questions of the set
InitFinishStartingFirst(s, a, t) ==
    LET a1 == [a EXCEPT !.questions = FilterByPassage(a.questions, a.rcSetId)]
        w1 == RestoreState(World(s, a1))
        a3 == IF ~w1.a.isTestSubmitted THEN StartTimer(w1.a, t) ELSE w1.a
        start == GetAttemptStartTime(w1.s)
        s3 == IF ~w1.a.isTestSubmitted /\ ~(IsSome(start) /\ Get(start) # 0)
              THEN SaveAttemptStartTime(w1.s, t) ELSE w1.s
    IN  IF Len(a1.questions) = 0
        THEN [s |-> s3, a |-> [a3 EXCEPT !.phase = "failed"], nav |-> NavTo("index", 0, None)]
        ELSE
          LET w2 == LoadQuestion(World(s3, a3), a3.currentQuestionIndex, t)
          IN  [s |-> w2.s, a |-> [w2.a EXCEPT !.phase = "ready"], nav |-> NoNav]

\* init after loadQuestions has resolved with a.questions the whole list
InitFinish(s, a, t) ==
    LET a1 == [a EXCEPT !.questions = FilterByPassage(a.questions, a.rcSetId)]
    IN  IF Len(a1.questions) = 0
        THEN [s |-> s, a |-> [a1 EXCEPT !.phase = "failed"], nav |-> NavTo("index", 0, None)]
        ELSE
          LET w1 == RestoreState(World(s, a1))
              w2 == LoadQuestion(w1, w1.a.currentQuestionIndex, t)
              a3 == IF ~w2.a.isTestSubmitted THEN StartTimer(w2.a, t) ELSE w2.a
              start == GetAttemptStartTime(w2.s)
              s3 == IF ~w2.a.isTestSubmitted /\ ~(IsSome(start) /\ Get(start) # 0)
                    THEN SaveAttemptStartTime(w2.s, t) ELSE w2.s
          IN  [s |-> s3, a |-> [a3 EXCEPT !.phase = "ready"], nav |-> NoNav]

\* new VARCApp(): init up to the first point where it waits for the network
InitStart(s, t) ==
    LET sel == GetSelectedRCSet(s) IN
    IF ~IsSome(sel) \/ Get(sel) = 0
    THEN [s |-> s, a |-> [NoApp EXCEPT !.phase = "stopped"], nav |-> NavTo("index", 0, None)]
    ELSE
      LET a0 == [NoApp EXCEPT !.rcSetId = Get(sel), !.phase = "loading"]
          stored == GetQuestionsData(s)
      IN  IF Len(stored) > 0
          THEN InitFinish(s, [a0 EXCEPT !.questions = stored], t)
          ELSE [s |-> s, a |-> a0, nav |-> NoNav]

\* the beforeunload listener of the quiz page
Unload(s, a, t) == IF HandlersBound(a) THEN SaveState(World(s, a), t).s ELSE s

TotalAttempts(s) ==
    LET RECURSIVE Sum(_)
        Sum(D) == IF D = {} THEN 0
                  ELSE LET d == CHOOSE x \in D : TRUE
                       IN  Len(s.attempts[d]) + Sum(D \ {d})
    IN  Sum(DOMAIN s.attempts)

\* ------------------------------------------------------------------------
\* Initial state: a browser profile with empty storage, on the selection page
\* ------------------------------------------------------------------------
Init ==
    /\ ls = EmptyStore
    /\ page = "index"
    /\ app = NoApp
    /\ nav = NoNav
    /\ results = None
    /\ now = 1
    /\ items = EmptyMap

\* ------------------------------------------------------------------------
\* Actions
\* ------------------------------------------------------------------------
\* a handler of the quiz page ran and left world w
Handled(w) ==
    /\ ls' = w.s
    /\ app' = w.a
    /\ UNCHANGED <<page, nav, results, now, items>>

OnQuiz == page = "quiz" /\ HandlersBound(app)

\* a new document is opened at quiz.html
OpenQuiz(s) ==
    LET r == InitStart(s, now)
    IN  /\ ls' = r.s
        /\ app' = r.a
        /\ nav' = r.nav
        /\ page' = "quiz"
        /\ results' = None
        /\ UNCHANGED <<now, items>>

\* selection page: the Start / Reattempt button of a set card
SelectRCSet(setId) ==
    /\ page = "index"
    /\ OpenQuiz(SaveSelectedRCSet(ls, setId))

\* the fetch of data/rc-passages.json resolves and init continues
FetchDone ==
    /\ page = "quiz"
    /\ app.phase = "loading"
    /\ LET s1 == InitializeStatuses(SaveQuestionsData(ls, Questions), Len(Questions))
           r  == InitFinish(s1, [app EXCEPT !.questions = Questions], now)
       IN  /\ ls' = r.s
           /\ app' = r.a
           /\ nav' = IF IsSome(r.nav) THEN r.nav ELSE nav
    /\ UNCHANGED <<page, results, now, items>>

\* click on an option of the displayed multiple-choice question
ClickOption(optIndex) ==
    /\ OnQuiz
    /\ IsSome(app.rendered)
    /\ Get(app.rendered).handlers
    /\ LET q == QuestionAt(app.questions, Get(app.rendered).index)
       IN  q.type # "TITA" /\ optIndex \in 0..(q.options - 1)
    /\ Handled(SelectOption(World(ls, app), optIndex))

\* typing in the text field of the displayed type-in question
TypeAnswer(value) ==
    /\ OnQuiz
    /\ IsSome(app.rendered)
    /\ Get(app.rendered).handlers
    /\ QuestionAt(app.questions, Get(app.rendered).index).type = "TITA"
    /\ Handled(HandleTITAInput(World(ls, app), value))

\* handleKeyPress, keys '1' .. '4'
PressDigit(d) ==
    /\ OnQuiz
    /\ ~app.isReviewMode
    /\ Handled(SelectOption(World(ls, app), d - 1))

\* click on a palette button
ClickPalette(index) ==
    /\ OnQuiz
    /\ app.phase = "ready"
    /\ IsValidIndex(app.questions, index)
    /\ Handled(NavigateToQuestion(World(ls, app), index, now))

\* a script calls window.varcApp.navigateToQuestion with the number h / 2
CallNavigate(h) ==
    /\ OnQuiz
    /\ Handled(NavigateToNumber(World(ls, app), h, now))

\* Save & Next button, keys 'n' and ArrowRight
PressNext ==
    /\ OnQuiz
    /\ Handled(SaveAndNext(World(ls, app), now))

\* handleKeyPress, keys 'p' and ArrowLeft
PressPrevious ==
    /\ OnQuiz
    /\ app.currentQuestionIndex > 0
    /\ Handled(NavigateToQuestion(World(ls, app), app.currentQuestionIndex - 1, now))

\* Mark for Review & Next button, key 'r'
PressReview ==
    /\ OnQuiz
    /\ ~app.isReviewMode
    /\ Handled(MarkForReviewAndNext(World(ls, app), now))

\* Clear Response button, key 'c'
PressClear ==
    /\ OnQuiz
    /\ ~app.isReviewMode
    /\ Handled(ClearResponse(World(ls, app)))

\* confirm button of the submit modal, while fewer than limit records are stored
ConfirmSubmit(limit) ==
    /\ OnQuiz
    /\ TotalAttempts(ls) < limit
    /\ LET r == SubmitTest(World(ls, app), now)
       IN  /\ ls' = r.s
           /\ app' = r.a
           /\ nav' = r.nav
    /\ UNCHANGED <<page, results, now, items>>

\* Review Answers button of the results modal
ReviewAnswers ==
    /\ OnQuiz
    /\ app.isTestSubmitted
    /\ ~app.isReviewMode
    /\ Handled(EnterReviewMode(World(ls, app), now))

\* Reset Test, confirmed in the reset modal (offered in review mode)
ConfirmReset ==
    /\ OnQuiz
    /\ app.isReviewMode
    /\ Handled(PerformTestReset(World(ls, app), now))

\* the navigation requested through window.location.href is committed
CommitNavigation ==
    /\ page = "quiz"
    /\ IsSome(nav)
    /\ ls' = Unload(ls, app, now)
    /\ app' = NoApp
    /\ nav' = NoNav
    /\ page' = Get(nav).to
    /\ results' = IF Get(nav).to = "results"
                  THEN Some([rcSetId |-> Get(nav).setId, currentAttempt |-> Get(nav).attempt])
                  ELSE None
    /\ UNCHANGED <<now, items>>

\* the user reloads the quiz page
Reload ==
    /\ page = "quiz"
    /\ OpenQuiz(Unload(ls, app, now))

\* the user leaves the quiz page for the selection page
LeaveQuiz ==
    /\ page = "quiz"
    /\ ls' = Unload(ls, app, now)
    /\ app' = NoApp
    /\ nav' = NoNav
    /\ page' = "index"
    /\ UNCHANGED <<results, now, items>>

\* results page: Back to Selection
GoToSelection ==
    /\ page = "results"
    /\ ls' = ResetTest(ClearSelectedRCSet(ls), 0)
    /\ page' = "index"
    /\ results' = None
    /\ UNCHANGED <<app, nav, now, items>>

\* results page: Reattempt
Reattempt ==
    /\ page = "results"
    /\ IF Get(results).rcSetId # 0
       THEN OpenQuiz(SaveSelectedRCSet(ResetTest(ls, 0), Get(results).rcSetId))
       ELSE /\ page' = "index"
            /\ results' = None
            /\ UNCHANGED <<ls, app, nav, now, items>>

\* results page: the browser's Back button returns to quiz.html
BackToQuiz ==
    /\ page = "results"
    /\ OpenQuiz(ls)

\* the steps of the program, for the given sets of user inputs and at most
\* limit attempt records
NextWith(digits, texts, limit) ==
    \/ \E setId \in SetIds : SelectRCSet(setId)
    \/ FetchDone
    \/ \E optIndex \in 0..3 : ClickOption(optIndex)
    \/ \E value \in texts : TypeAnswer(value)
    \/ \E d \in digits : PressDigit(d)
    \/ \E index \in 0..(Len(Questions) - 1) : ClickPalette(index)
    \/ PressNext
    \/ PressPrevious
    \/ PressReview
    \/ PressClear
    \/ ConfirmSubmit(limit)
    \/ ReviewAnswers
    \/ ConfirmReset
    \/ CommitNavigation
    \/ Reload
    \/ LeaveQuiz
    \/ GoToSelection
    \/ Reattempt
    \/ BackToQuiz

Next ==
    \/ NextWith(SomeDigits, TitaInputs, MaxSubmits)
    \/ \E h \in NavNumbers : CallNavigate(h)

Spec == Init /\ [][Next]_vars

\* the steps explored with a longer history: answers are given by click and by
\* typing only, and questions are reached by the palette and Save & Next
NextHistory ==
    \/ \E setId \in SetIds : SelectRCSet(setId)
    \/ FetchDone
    \/ \E optIndex \in 0..3 : ClickOption(optIndex)
    \/ \E value \in FewTexts : TypeAnswer(value)
    \/ \E index \in 0..(Len(Questions) - 1) : ClickPalette(index)
    \/ PressNext
    \/ PressReview
    \/ PressClear
    \/ ConfirmSubmit(MaxAttempts)
    \/ ReviewAnswers
    \/ ConfirmReset
    \/ CommitNavigation
    \/ Reload
    \/ LeaveQuiz
    \/ GoToSelection
    \/ Reattempt
    \/ BackToQuiz

SpecHistory == Init /\ [][NextHistory]_vars

\* ------------------------------------------------------------------------
\* The clock.  SpecTimer adds the passing of time and the callback of the
\* one-second interval to the steps of the program.
\* ------------------------------------------------------------------------
\* a second passes
Advance ==
    /\ now < 1 + MaxSeconds * Second
    /\ now' = now + Second
    /\ UNCHANGED <<ls, page, app, nav, results, items>>

\* an interval of the quiz page fires
Tick ==
    /\ page = "quiz"
    /\ app.intervals > 0
    /\ app' = TimerCallback(app, now)
    /\ UNCHANGED <<ls, page, nav, results, now, items>>

\* the steps that start, stop or outlive a timer (opening and leaving pages,
\* moving between questions, submitting, reviewing, resetting) and the clock
NextTimer ==
    \/ \E setId \in SetIds : SelectRCSet(setId)
    \/ FetchDone
    \/ PressNext
    \/ PressPrevious
    \/ ConfirmSubmit(MaxSubmits)
    \/ ReviewAnswers
    \/ ConfirmReset
    \/ CommitNavigation
    \/ Reload
    \/ LeaveQuiz
    \/ GoToSelection
    \/ Reattempt
    \/ BackToQuiz
    \/ Advance
    \/ Tick

SpecTimer == Init /\ [][NextTimer]_vars

\* ------------------------------------------------------------------------
\* Scoring over question banks with other marks.  The bank is the content of
\* data/rc-passages.json, an input of the program: SpecScoring starts on the quiz
\* page opened for set 1 of a cached bank of one or two multiple-choice
\* questions, drawn with every choice of marks below, and lets the user answer,
\* clear, move and submit.
\* ------------------------------------------------------------------------
\* the marks objects of the drawn questions: absent, the usual {3, 1}, no negative
\* marking, no positive marks, and a penalty larger than the reward
MarkChoices ==
    { None,
      Some([positive |-> 3, negative |-> 1]),
      Some([positive |-> 3, negative |-> 0]),
      Some([positive |-> 0, negative |-> 1]),
      Some([positive |-> 1, negative |-> 2]) }

ScoringQuestion(id, marks) ==
    [id |-> id, passageId |-> 1, type |-> "MCQ", options |-> 2,
     question |-> "q", explanation |-> "e", tags |-> {"inference"},
     correctAnswer |-> Choice(0), marks |-> marks]

ScoringBanks ==
    { <<ScoringQuestion(1, m)>> : m \in MarkChoices }
    \cup { <<ScoringQuestion(1, m[1]), ScoringQuestion(2, m[2])>> :
              m \in MarkChoices \X MarkChoices }

InitScoring ==
    \E bank \in ScoringBanks :
        LET r == InitStart(SaveSelectedRCSet(SaveQuestionsData(EmptyStore, bank), 1), 1)
        IN  /\ ls = r.s
            /\ app = r.a
            /\ nav = r.nav
            /\ page = "quiz"
            /\ results = None
            /\ now = 1
    /\ items = EmptyMap

NextScoring ==
    \/ \E optIndex \in 0..1 : ClickOption(optIndex)
    \/ PressNext
    \/ PressPrevious
    \/ PressClear
    \/ ConfirmSubmit(MaxSubmits)
    \/ CommitNavigation

SpecScoring == InitScoring /\ [][NextScoring]_vars

\* ------------------------------------------------------------------------
\* Properties
\* ------------------------------------------------------------------------
Indices == 0..(Len(Questions) - 1)
StatusOf(s, i) == GetQuestionStatus(s, i)

\* steps that apply resetTest: the reset of the quiz page, the two buttons of the
\* results page, and a quiz page opened (or finishing its load) on a completed test
ResetStep ==
    \/ ConfirmReset
    \/ GoToSelection
    \/ Reattempt
    \/ /\ IsTestCompleted(ls)
       /\ \/ Reload
          \/ BackToQuiz
          \/ FetchDone
          \/ \E setId \in SetIds : SelectRCSet(setId)

\* steps that record an answer for the current question
AnswerStep ==
    \/ \E optIndex \in 0..3 : ClickOption(optIndex)
    \/ \E d \in DigitKeys : PressDigit(d)
    \/ \E value \in TitaInputs : Trim(value) # <<>> /\ TypeAnswer(value)

\* a quiz page that has finished init, before and after the step
Ready == page = "quiz" /\ app.phase = "ready" /\ app'.phase = "ready"

\* C1: once the test is submitted (and until a reset clears the flag) no step
\* of the initialised quiz page changes the persisted answers or statuses.
C1_FrozenAfterSubmit ==
    [][ (Ready /\ app.isTestSubmitted /\ IsTestCompleted(ls) /\ IsTestCompleted(ls'))
        => (ls'.answers = ls.answers /\ ls'.statuses = ls.statuses) ]_vars

\* C2: answering the current question stores an answer for it and moves
\* not-answered to answered and review to review-answered, while answered and
\* review-answered stay as they are.
C2_AnswerTransitions ==
    [][ (Ready /\ AnswerStep) =>
          LET i == app.currentQuestionIndex
              old == StatusOf(ls, i)
          IN  /\ i \in DOMAIN ls'.answers
              /\ old = "not-answered" => StatusOf(ls', i) = "answered"
              /\ old = "review" => StatusOf(ls', i) = "review-answered"
              /\ old = "answered" => StatusOf(ls', i) = "answered"
              /\ old = "review-answered" => StatusOf(ls', i) = "review-answered" ]_vars

\* C3: clearing the response of the current question removes its answer, moves
\* answered to not-answered and review-answered to review, and leaves the status
\* as it is when there was no answer.
C3_ClearTransitions ==
    [][ (Ready /\ PressClear) =>
          LET i == app.currentQuestionIndex
              old == StatusOf(ls, i)
          IN  /\ i \notin DOMAIN ls'.answers
              /\ old = "answered" => StatusOf(ls', i) = "not-answered"
              /\ old = "review-answered" => StatusOf(ls', i) = "review"
              /\ i \notin DOMAIN ls.answers => StatusOf(ls', i) = old ]_vars

\* C4 as stated: mark-for-review toggles, not-answered <-> review without an
\* answer and answered <-> review-answered with one.
C4_MarkToggles ==
    [][ (Ready /\ PressReview) =>
          LET i == app.currentQuestionIndex
              old == StatusOf(ls, i)
          IN  IF i \in DOMAIN ls.answers
              THEN /\ old = "answered" => StatusOf(ls', i) = "review-answered"
                   /\ old = "review-answered" => StatusOf(ls', i) = "answered"
              ELSE /\ old = "not-answered" => StatusOf(ls', i) = "review"
                   /\ old = "review" => StatusOf(ls', i) = "not-answered" ]_vars

\* C4 as amended: mark-for-review sets the mark and never removes it; the question
\* it is applied to becomes review-answered when an answer is stored for it and
\* review when none is, whatever its status was.
C4_MarkSets ==
    [][ PressReview =>
          LET i == app.currentQuestionIndex
          IN  StatusOf(ls', i) = IF i \in DOMAIN ls.answers THEN "review-answered"
                                 ELSE "review" ]_vars

\* a marked question with the answer 0 stored
C4_Witness ==
    /\ page = "quiz"
    /\ app.phase = "ready"
    /\ \E i \in DOMAIN ls.answers :
          ls.answers[i] = Choice(0) /\ StatusOf(ls, i) = "review-answered"

\* steps that display question i: a palette click, Save & Next, the previous key
DisplayStep(i) ==
    \/ ClickPalette(i)
    \/ PressNext /\ i = app.currentQuestionIndex + 1 /\ IsValidIndex(app.questions, i)
    \/ PressPrevious /\ i = app.currentQuestionIndex - 1

\* C5: displaying question i changes its status to not-answered exactly when it
\* was not-visited, changes no other status, and makes i the current index in
\* memory and in storage.
C5_Display ==
    [][ \A i \in Indices : DisplayStep(i) =>
          /\ StatusOf(ls', i) = IF StatusOf(ls, i) = "not-visited" THEN "not-answered"
                                ELSE StatusOf(ls, i)
          /\ \A j \in Indices \ {i} : StatusOf(ls', j) = StatusOf(ls, j)
          /\ app'.currentQuestionIndex = i
          /\ ls'.current = Some(i) ]_vars

\* the second question is displayed after it had been answered and marked
C5_Witness ==
    /\ page = "quiz"
    /\ app.phase = "ready"
    /\ app.currentQuestionIndex = 1
    /\ ls.current = Some(1)
    /\ StatusOf(ls, 1) = "review-answered"
    /\ StatusOf(ls, 0) = "not-answered"

\* C6: a status that has left not-visited returns to it only in a reset step.
C6_NeverBackToNotVisited ==
    [][ (\E i \in Indices : StatusOf(ls, i) # "not-visited" /\ StatusOf(ls', i) = "not-visited")
        => ResetStep ]_vars

\* a question has been answered and then cleared
C6_Witness ==
    /\ page = "quiz"
    /\ app.phase = "ready"
    /\ StatusOf(ls, 1) = "not-answered"
    /\ 1 \notin DOMAIN ls.answers
    /\ 1 \in DOMAIN ls.tracking
    /\ StatusOf(ls, 0) = "answered"

SumOfStatistics(s, n) ==
    LET stats == GetStatistics(s, n)
    IN  stats.answered + stats.notAnswered + stats.notVisited + stats.review
        + stats.reviewAnswered

\* C7: every question index has one of the five statuses, so the five counters
\* of getStatistics(n) add up to n.
C7_StatisticsSum ==
    /\ \A i \in DOMAIN ls.statuses : ls.statuses[i] \in Statuses
    /\ \A n \in 0..Len(Questions) : SumOfStatistics(ls, n) = n

\* a session with one question answered-and-marked and the other one marked
C7_Witness ==
    /\ page = "quiz"
    /\ app.phase = "ready"
    /\ Len(app.questions) = 2
    /\ GetStatistics(ls, 2).reviewAnswered = 1
    /\ GetStatistics(ls, 2).review = 1

\* C8: a set opened while another set was selected and left unsubmitted starts
\* without answers and with every question but the displayed one not-visited.
C8_StatePerSet ==
    [][ \A setId \in SetIds :
          ( /\ SelectRCSet(setId)
            /\ IsSome(ls.selected) /\ Get(ls.selected) # setId
            /\ ~IsTestCompleted(ls)
            /\ app'.phase = "ready" )
          => /\ ls'.answers = EmptyMap
             /\ \A i \in Indices :
                   i # app'.currentQuestionIndex => StatusOf(ls', i) = "not-visited" ]_vars

\* C9: submitting a test that is already submitted appends no record and requests
\* the same results page.
C9_SecondSubmitNoOp ==
    [][ (Ready /\ ConfirmSubmit(MaxAttempts) /\ app.isTestSubmitted /\ IsTestCompleted(ls))
        => (ls'.attempts = ls.attempts /\ nav' = nav) ]_vars

\* C10: a submission appends one record at the end of the list of the submitted
\* set and leaves the records of every set in place; no other step changes the
\* history.
C10_HistoryAppendOnly ==
    [][ IF ConfirmSubmit(MaxAttempts)
        THEN LET before == GetRCSetAttempts(ls, app.rcSetId)
                 after  == GetRCSetAttempts(ls', app.rcSetId)
             IN  /\ Len(after) = Len(before) + 1
                 /\ SubSeq(after, 1, Len(before)) = before
                 /\ \A setId \in (DOMAIN ls.attempts \cup DOMAIN ls'.attempts) \ {app.rcSetId} :
                       GetRCSetAttempts(ls', setId) = GetRCSetAttempts(ls, setId)
        ELSE ls'.attempts = ls.attempts ]_vars

\* the list of one set holds two records, of different attempts
C10_Witness ==
    \E setId \in DOMAIN ls.attempts :
        /\ Len(ls.attempts[setId]) = 2
        /\ ls.attempts[setId][1] # ls.attempts[setId][2]

\* the questions with a started, not yet stopped per-question timer
PendingTimers(s) == {i \in DOMAIN s.tracking : HasPendingStart(s, i)}

\* C11: while the initialised quiz page shows an unsubmitted session the only
\* question that can have a pending per-question timer is the current one, and
\* once the test is submitted no question has a pending timer.
C11_OnePendingTimer ==
    (page = "quiz" /\ app.phase = "ready")
    => IF app.isTestSubmitted
       THEN PendingTimers(ls) = {}
       ELSE PendingTimers(ls) \subseteq {app.currentQuestionIndex}

\* C12: navigateToQuestion called with a number that is no index of the session
\* (negative, at least the number of questions, or fractional) changes nothing:
\* current index, answers, statuses, timers and the rest of the state stay.
C12_InvalidNavigationNoOp ==
    [][ \A h \in NavNumbers :
          (CallNavigate(h) /\ ~(IsInteger(h) /\ IsValidIndex(app.questions, h \div 2)))
          => (ls' = ls /\ app' = app /\ nav' = nav /\ page' = page) ]_vars

\* an unsubmitted session on its second question, with an answer stored and the
\* timer of the second question pending: every invalid call has something to spoil
C12_Witness ==
    /\ page = "quiz"
    /\ app.phase = "ready"
    /\ ~app.isTestSubmitted
    /\ Len(app.questions) = 2
    /\ app.currentQuestionIndex = 1
    /\ PendingTimers(ls) = {1}
    /\ 0 \in DOMAIN ls.answers

\* C13: resetTest(n), applied to any store the program reaches, leaves no answer,
\* no timer state, no time tracking, no attempt start and no submitted flag, the
\* statuses of exactly the indices below n, all not-visited, and statistics with
\* notVisited = n and every other counter 0.
C13_ResetClears ==
    \A n \in 0..Len(Questions) :
        LET s == ResetTest(ls, n)
        IN  /\ s.answers = EmptyMap
            /\ s.timer = None
            /\ s.tracking = EmptyMap
            /\ s.attemptStart = None
            /\ ~IsTestCompleted(s)
            /\ s.statuses = [i \in 0..(n - 1) |-> "not-visited"]
            /\ GetStatistics(s, n) = [ answered |-> 0, notAnswered |-> 0, notVisited |-> n,
                                       review |-> 0, reviewAnswered |-> 0 ]

\* a store in which resetTest has everything to clear
C13_Witness ==
    /\ IsTestCompleted(ls)
    /\ ls.answers # EmptyMap
    /\ IsSome(ls.timer)
    /\ ls.tracking # EmptyMap
    /\ IsSome(ls.attemptStart)
    /\ \E i \in DOMAIN ls.statuses : ls.statuses[i] = "review-answered"

\* C14: the initialised quiz page keeps the stored current index equal to the
\* one in memory, and a reload of an unsubmitted session restores the answers,
\* the statuses and the current index that were in effect before it.
C14_ReloadRestores ==
    [][ /\ (page' = "quiz" /\ app'.phase = "ready")
           => ls'.current = Some(app'.currentQuestionIndex)
        /\ (Reload /\ app.phase = "ready" /\ ~IsTestCompleted(ls))
           => /\ app'.phase = "ready"
              /\ ls'.answers = ls.answers
              /\ ls'.statuses = ls.statuses
              /\ app'.currentQuestionIndex = app.currentQuestionIndex
              /\ app'.questions = app.questions ]_vars

\* an unsubmitted session that has been through an unload (the timer state is
\* written by the beforeunload listener only) and shows its second question again
C14_Witness ==
    /\ page = "quiz"
    /\ app.phase = "ready"
    /\ ~IsTestCompleted(ls)
    /\ IsSome(ls.timer)
    /\ app.currentQuestionIndex = 1
    /\ 1 \in DOMAIN ls.answers
    /\ StatusOf(ls, 0) = "review"

\* the indices of qs by the outcome of the stored answer
CorrectSet(qs, s) ==
    {i \in 0..(Len(qs) - 1) : i \in DOMAIN s.answers /\ s.answers[i] = qs[i + 1].correctAnswer}
IncorrectSet(qs, s) ==
    {i \in 0..(Len(qs) - 1) : i \in DOMAIN s.answers /\ s.answers[i] # qs[i + 1].correctAnswer}
UnattemptedSet(qs, s) == {i \in 0..(Len(qs) - 1) : i \notin DOMAIN s.answers}

\* sums of the marks calculateResults resolves for the questions with index in S
RECURSIVE SumPositive(_, _)
SumPositive(qs, S) ==
    IF S = {} THEN 0
    ELSE LET i == CHOOSE x \in S : TRUE
         IN  PositiveMarks(qs[i + 1]) + SumPositive(qs, S \ {i})
RECURSIVE SumNegative(_, _)
SumNegative(qs, S) ==
    IF S = {} THEN 0
    ELSE LET i == CHOOSE x \in S : TRUE
         IN  NegativeMarks(qs[i + 1]) + SumNegative(qs, S \ {i})

OwnPositive(q) == IF IsSome(q.marks) THEN Get(q.marks).positive ELSE 3
OwnNegative(q) == IF IsSome(q.marks) THEN Get(q.marks).negative ELSE 1

RECURSIVE SumOwnPositive(_, _)
SumOwnPositive(qs, S) ==
    IF S = {} THEN 0
    ELSE LET i == CHOOSE x \in S : TRUE
         IN  OwnPositive(qs[i + 1]) + SumOwnPositive(qs, S \ {i})
RECURSIVE SumOwnNegative(_, _)
SumOwnNegative(qs, S) ==
    IF S = {} THEN 0
    ELSE LET i == CHOOSE x \in S : TRUE
         IN  OwnNegative(qs[i + 1]) + SumOwnNegative(qs, S \ {i})

\* C16: the score of a submitted attempt adds the own positive marks of every
\* correct question and subtracts the own negative marks of every incorrect one,
\* a value of 0 included; 3 and 1 stand in only where a question has no marks.
C16_OwnMarks ==
    [][ ConfirmSubmit(MaxSubmits) =>
          LET qs == app.questions
              attempt == Get(Get(nav').attempt)
          IN  attempt.score = Max(0, SumOwnPositive(qs, CorrectSet(qs, ls))
                                     - SumOwnNegative(qs, IncorrectSet(qs, ls))) ]_vars

\* C17: wherever the answer 0 (the first option) is stored for a question,
\* getAnswer returns 0 and not "no answer", mark-for-review on that question
\* yields review-answered, and calculateResults counts as unattempted exactly
\* the questions without a stored answer, so never that one.
C17_ZeroIsAnAnswer ==
    \A i \in DOMAIN ls.answers :
        ls.answers[i] = Choice(0)
        => /\ GetAnswer(ls, i) = Some(Choice(0))
           /\ (OnQuiz /\ i = app.currentQuestionIndex)
              => StatusOf(MarkForReviewAndNext(World(ls, app), now).s, i) = "review-answered"
           /\ OnQuiz
              => CalculateResults(app.questions, ls).unattempted
                   = Cardinality(UnattemptedSet(app.questions, ls))

\* a submitted attempt of two questions: the first was answered with option 0
\* and then marked, the second was left unanswered
C17_Witness ==
    /\ page = "quiz"
    /\ IsSome(nav)
    /\ Get(nav).to = "results"
    /\ IsSome(Get(nav).attempt)
    /\ Len(Get(Get(nav).attempt).questions) = 2
    /\ Get(Get(nav).attempt).questions[1].userAnswer = Some(Choice(0))
    /\ Get(Get(nav).attempt).unattempted = 1
    /\ StatusOf(ls, 0) = "review-answered"

\* C18: the record a submission appends holds, for every question of the set in
\* order, a snapshot with the answer stored at submission (null if none), the
\* correct answer, the prompt, the choices, the explanation and the tags.
C18_SnapshotWithTags ==
    [][ (Ready /\ ConfirmSubmit(MaxSubmits)) =>
          LET attempts == GetRCSetAttempts(ls', app.rcSetId)
              record == attempts[Len(attempts)].data
          IN  /\ Len(record.questions) = Len(app.questions)
              /\ \A k \in 1..Len(app.questions) :
                    LET q == app.questions[k]
                        snapshot == record.questions[k]
                    IN  /\ snapshot.userAnswer = GetAnswer(ls, k - 1)
                        /\ snapshot.correctAnswer = q.correctAnswer
                        /\ snapshot.question = q.question
                        /\ snapshot.options = q.options
                        /\ snapshot.explanation = q.explanation
                        /\ "tags" \in DOMAIN snapshot
                        /\ snapshot.tags = q.tags ]_vars

\* C19: at most one interval is active at any time and this.timerInterval holds
\* its handle; submitTest leaves no interval active, none is active while the
\* test is submitted, and the elapsed time of a submitted test no longer changes.
C19_SubmitCancelsInterval ==
    [][ /\ app'.intervals <= 1
        /\ app'.timerInterval <=> (app'.intervals = 1)
        /\ ConfirmSubmit(MaxSubmits) => (app'.intervals = 0 /\ app'.isTestSubmitted)
        /\ app'.isTestSubmitted => app'.intervals = 0
        /\ (page = "quiz" /\ page' = "quiz" /\ app.isTestSubmitted /\ app'.isTestSubmitted)
           => app'.totalElapsedTime = app.totalElapsedTime ]_vars

\* a submitted test whose timer had shown one second; another second has passed
\* since without the display following
C19_Witness ==
    /\ page = "quiz"
    /\ app.phase = "ready"
    /\ app.isTestSubmitted
    /\ app.intervals = 0
    /\ app.totalElapsedTime = 1
    /\ now - Get(app.timerStartTime) = 2 * Second

\* steps in which the quiz page is unloaded after its beforeunload listener ran
UnloadStep == HandlersBound(app) /\ (CommitNavigation \/ Reload \/ LeaveQuiz)

\* C20: when the quiz page is about to unload, the beforeunload listener leaves
\* the instance without an interval handle and the page without an active interval.
C20_UnloadCancelsInterval ==
    [][ UnloadStep =>
          LET left == SaveState(World(ls, app), now).a
          IN  ~left.timerInterval /\ left.intervals = 0 ]_vars

\* ------------------------------------------------------------------------
\* The stopwatch and the stored timer state
\* ------------------------------------------------------------------------
\* steps of an attempt that is unsubmitted before and after: the interval
\* fires, or the page is reloaded and init runs to its end from the cache
AttemptContinues ==
    /\ page = "quiz" /\ page' = "quiz"
    /\ app.phase = "ready" /\ app'.phase = "ready"
    /\ ~app.isTestSubmitted /\ ~app'.isTestSubmitted
    /\ app'.rcSetId = app.rcSetId

\* C21: each tick of the one-second interval advances the displayed elapsed time
\* and stores the timer state again, and the elapsed time of an unsubmitted
\* attempt never decreases, neither at a tick nor across a reload of the page.
C21_StopwatchResumes ==
    [][ /\ Tick => /\ app'.totalElapsedTime >= app.totalElapsedTime
                   /\ IsSome(ls'.timer)
                   /\ Get(ls'.timer).savedAt = now
        /\ (AttemptContinues /\ (Tick \/ Reload))
              => app'.totalElapsedTime >= app.totalElapsedTime ]_vars

\* ------------------------------------------------------------------------
\* StorageManager called on its own.  SpecStorage starts from every store a
\* caller can have prepared with a saved timer state and lets the caller save
\* the timer state, start, stop and clear per-question timers, and let time pass
\* in steps shorter than a second.
\* ------------------------------------------------------------------------
\* what a getter returns: null, a number, or NaN
Null == [kind |-> "null", value |-> 0]
Number(n) == [kind |-> "number", value |-> n]
NaN == [kind |-> "NaN", value |-> 0]

\* getTimerState without the clamp at zero
GetTimerStateUnclamped(s, t) ==
    IF ~IsSome(s.timer) THEN Null
    ELSE LET timerState == Get(s.timer)
             elapsedSeconds == (t - timerState.savedAt) \div Second
         IN  IF ~IsSome(timerState.remainingSeconds) THEN NaN
             ELSE Number(Get(timerState.remainingSeconds) - elapsedSeconds)

\* remainingSeconds is absent from the stored object when undefined was saved
GetTimerState(s, t) ==
    IF ~IsSome(s.timer) THEN Null
    ELSE LET timerState == Get(s.timer)
             elapsedSeconds == (t - timerState.savedAt) \div Second
             adjustedTime == Get(timerState.remainingSeconds) - elapsedSeconds
         IN  IF ~IsSome(timerState.remainingSeconds) THEN NaN
             ELSE Number(Max(0, adjustedTime))

GetQuestionTime(s, questionIndex, t) ==
    IF questionIndex \notin DOMAIN s.tracking THEN 0
    ELSE LET totalTime == s.tracking[questionIndex].totalTime
         IN  IF HasPendingStart(s, questionIndex)
             THEN totalTime + (t - Get(s.tracking[questionIndex].startTime))
             ELSE totalTime

ClearQuestionTimeTracking(s) == [s EXCEPT !.tracking = EmptyMap]

\* the remaining seconds a caller saves, and the steps of the clock in ms
MaxRemaining == 2
ClockSteps == {400, 600}

InitStorage ==
    /\ ls \in {EmptyStore} \cup
              {SaveTimerState(EmptyStore, Some(r), 1) : r \in 0..MaxRemaining}
    /\ page = "index"
    /\ app = NoApp
    /\ nav = NoNav
    /\ results = None
    /\ now = 1
    /\ items = EmptyMap

StoreCall(s) ==
    /\ ls' = s
    /\ UNCHANGED <<page, app, nav, results, now, items>>

CallSaveTimerState(r) == StoreCall(SaveTimerState(ls, Some(r), now))
CallStartQuestionTimer(i) == StoreCall(StartQuestionTimer(ls, i, now))
CallStopQuestionTimer(i) == StoreCall(StopQuestionTimer(ls, i, now))
CallClearQuestionTimeTracking == StoreCall(ClearQuestionTimeTracking(ls))

Elapse(ms) ==
    /\ now + ms <= 1 + MaxSeconds * Second
    /\ now' = now + ms
    /\ UNCHANGED <<ls, page, app, nav, results, items>>

NextStorage ==
    \/ \E r \in 0..MaxRemaining : CallSaveTimerState(r)
    \/ \E i \in 0..1 : CallStartQuestionTimer(i)
    \/ \E i \in 0..1 : CallStopQuestionTimer(i)
    \/ CallClearQuestionTimeTracking
    \/ \E ms \in ClockSteps : Elapse(ms)

SpecStorage == InitStorage /\ [][NextStorage]_vars

\* C22: getTimerState returns null when no timer state is stored and otherwise
\* max(0, remainingSeconds - floor((now - savedAt) / 1000)), a number that is
\* never negative and never above the stored remaining seconds; while no save
\* intervenes a later read never returns more than an earlier one.
C22_RemainingNeverGrows ==
    [][ LET before == GetTimerState(ls, now)
            after == GetTimerState(ls', now')
        IN  /\ IsSome(ls.timer) <=> before # Null
            /\ IsSome(ls.timer) =>
                 LET stored == Get(Get(ls.timer).remainingSeconds)
                     whole == CHOOSE k \in 0..MaxSeconds :
                                  /\ k * Second <= now - Get(ls.timer).savedAt
                                  /\ now - Get(ls.timer).savedAt < (k + 1) * Second
                 IN  /\ before.kind = "number"
                     /\ before.value = (IF stored - whole > 0 THEN stored - whole ELSE 0)
                     /\ before.value >= 0
                     /\ before.value <= stored
            /\ (IsSome(ls.timer) /\ ls'.timer = ls.timer)
                 => after.value <= before.value ]_vars

\* a timer state saved with one second remaining and read at least two seconds
\* later: the difference is negative and the read returns 0
C22_Witness ==
    /\ IsSome(ls.timer)
    /\ Get(Get(ls.timer).remainingSeconds) = 1
    /\ now - Get(ls.timer).savedAt >= 2 * Second
    /\ GetTimerState(ls, now) = Number(0)

\* steps that clear the question time tracking
TrackingResetStep == ResetStep \/ CallClearQuestionTimeTracking

\* C23: between resets the accumulated time of every question, the stored total
\* plus now - startTime while a start is pending, never decreases;
\* stopQuestionTimer adds now - startTime to the stored total and clears the
\* pending start, and changes nothing when no start is pending; a question
\* without a tracking entry reads 0.
C23_QuestionTimeGrows ==
    [][ \A i \in 0..(Len(Questions) - 1) :
          /\ i \notin DOMAIN ls.tracking => GetQuestionTime(ls, i, now) = 0
          /\ CallStopQuestionTimer(i) =>
               IF HasPendingStart(ls, i)
               THEN /\ ls'.tracking[i].totalTime
                         = ls.tracking[i].totalTime + (now - Get(ls.tracking[i].startTime))
                    /\ ~HasPendingStart(ls', i)
               ELSE ls' = ls
          /\ ~TrackingResetStep =>
               GetQuestionTime(ls', i, now') >= GetQuestionTime(ls, i, now) ]_vars

\* ------------------------------------------------------------------------
\* JSON.  A value is a record with its type in t and the content in the field of
\* that type; a text is the sequence of the tokens of the JSON grammar, a string
\* token standing for the string between its quotes.
\* ------------------------------------------------------------------------
JNull == [t |-> "null", b |-> FALSE, n |-> 0, s |-> "", o |-> EmptyMap, a |-> <<>>]
JBool(b) == [JNull EXCEPT !.t = "boolean", !.b = b]
JNum(n) == [JNull EXCEPT !.t = "number", !.n = n]
JStr(s) == [JNull EXCEPT !.t = "string", !.s = s]
JObj(o) == [JNull EXCEPT !.t = "object", !.o = o]
JArr(a) == [JNull EXCEPT !.t = "array", !.a = a]
\* an object that refers to itself: JSON.stringify throws on it
Circular == [JNull EXCEPT !.t = "circular"]

\* the values JavaScript takes for false in a condition
Falsy(v) ==
    \/ v.t = "null"
    \/ v.t = "boolean" /\ ~v.b
    \/ v.t = "number" /\ v.n = 0
    \/ v.t = "string" /\ v.s = ""

Tok(k, v) == [k |-> k, v |-> v]
LBrace == Tok("punctuator", "{")
RBrace == Tok("punctuator", "}")
LBracket == Tok("punctuator", "[")
RBracket == Tok("punctuator", "]")
Colon == Tok("punctuator", ":")
Comma == Tok("punctuator", ",")

Numerals == <<"0", "1", "2", "3", "4", "5", "6", "7", "8", "9">>
NumeralOf(n) == Numerals[n + 1]
NumberOf(v) == (CHOOSE i \in DOMAIN Numerals : Numerals[i] = v) - 1

RECURSIVE Serializable(_)
Serializable(v) ==
    /\ v.t # "circular"
    /\ \A k \in DOMAIN v.o : Serializable(v.o[k])
    /\ \A i \in DOMAIN v.a : Serializable(v.a[i])

\* JSON.stringify of a serializable value
RECURSIVE JSONStringify(_), StringifyMembers(_, _), StringifyElements(_, _)
JSONStringify(v) ==
    CASE v.t = "null" -> <<Tok("literal", "null")>>
      [] v.t = "boolean" -> <<Tok("literal", IF v.b THEN "true" ELSE "false")>>
      [] v.t = "number" -> <<Tok("number", NumeralOf(v.n))>>
      [] v.t = "string" -> <<Tok("string", v.s)>>
      [] v.t = "object" -> <<LBrace>> \o StringifyMembers(v.o, DOMAIN v.o) \o <<RBrace>>
      [] v.t = "array" -> <<LBracket>> \o StringifyElements(v.a, 1) \o <<RBracket>>

StringifyMembers(o, keys) ==
    IF keys = {} THEN <<>>
    ELSE LET k == CHOOSE x \in keys : TRUE
         IN  <<Tok("string", k), Colon>> \o JSONStringify(o[k])
             \o (IF keys = {k} THEN <<>> ELSE <<Comma>> \o StringifyMembers(o, keys \ {k}))

StringifyElements(a, i) ==
    IF i > Len(a) THEN <<>>
    ELSE JSONStringify(a[i])
         \o (IF i = Len(a) THEN <<>> ELSE <<Comma>> \o StringifyElements(a, i + 1))

\* the parser: the value that starts at token i and the place after it
SyntaxError == [ok |-> FALSE, value |-> JNull, next |-> 0]
Parsed(v, next) == [ok |-> TRUE, value |-> v, next |-> next]

RECURSIVE ParseValue(_, _), ParseMembers(_, _, _), ParseElements(_, _, _)
ParseValue(text, i) ==
    IF i > Len(text) THEN SyntaxError
    ELSE LET tk == text[i] IN
         CASE tk = Tok("literal", "null") -> Parsed(JNull, i + 1)
           [] tk = Tok("literal", "true") -> Parsed(JBool(TRUE), i + 1)
           [] tk = Tok("literal", "false") -> Parsed(JBool(FALSE), i + 1)
           [] tk.k = "number" -> Parsed(JNum(NumberOf(tk.v)), i + 1)
           [] tk.k = "string" -> Parsed(JStr(tk.v), i + 1)
           [] tk = LBrace ->
                IF i + 1 <= Len(text) /\ text[i + 1] = RBrace
                THEN Parsed(JObj(EmptyMap), i + 2)
                ELSE ParseMembers(text, i + 1, EmptyMap)
           [] tk = LBracket ->
                IF i + 1 <= Len(text) /\ text[i + 1] = RBracket
                THEN Parsed(JArr(<<>>), i + 2)
                ELSE ParseElements(text, i + 1, <<>>)
           [] OTHER -> SyntaxError

ParseMembers(text, i, o) ==
    IF i + 1 > Len(text) \/ text[i].k # "string" \/ text[i + 1] # Colon
    THEN SyntaxError
    ELSE LET m == ParseValue(text, i + 2) IN
         IF ~m.ok \/ m.next > Len(text) THEN SyntaxError
         ELSE IF text[m.next] = RBrace
              THEN Parsed(JObj(Put(o, text[i].v, m.value)), m.next + 1)
         ELSE IF text[m.next] = Comma
              THEN ParseMembers(text, m.next + 1, Put(o, text[i].v, m.value))
         ELSE SyntaxError

ParseElements(text, i, a) ==
    LET m == ParseValue(text, i) IN
    IF ~m.ok \/ m.next > Len(text) THEN SyntaxError
    ELSE IF text[m.next] = RBracket
         THEN Parsed(JArr(Append(a, m.value)), m.next + 1)
    ELSE IF text[m.next] = Comma
         THEN ParseElements(text, m.next + 1, Append(a, m.value))
    ELSE SyntaxError

\* JSON.parse: the whole text must be one value
JSONParse(text) ==
    LET r == ParseValue(text, 1)
    IN  IF r.ok /\ r.next = Len(text) + 1 THEN r ELSE SyntaxError

\* ------------------------------------------------------------------------
\* StorageManager on the keys of localStorage.  A call returns the items it
\* leaves, what it returned (ret) and whether it threw instead of returning.
\* ------------------------------------------------------------------------
KEYS ==
    [ TEST_STATE |-> "varc_test_state",
      USER_ANSWERS |-> "varc_user_answers",
      QUESTION_STATUS |-> "varc_question_status",
      TIMER_STATE |-> "varc_timer_state",
      TEST_COMPLETED |-> "varc_test_completed",
      CURRENT_QUESTION |-> "varc_current_question",
      QUESTIONS_DATA |-> "varc_questions_data",
      USER_NAME |-> "varc_user_name",
      SELECTED_RC_SET |-> "varc_selected_rc_set",
      RC_SET_ATTEMPTS |-> "varc_rc_set_attempts",
      QUESTION_TIME_TRACKING |-> "varc_question_time_tracking",
      CURRENT_ATTEMPT_START |-> "varc_current_attempt_start" ]

\* Object.values(this.KEYS)
RegistryKeys == {KEYS[name] : name \in DOMAIN KEYS}

\* the keys written without StorageManager: the landing page's question type
\* and the dark mode preference
QuestionTypeKey == "varc_question_type"
DarkModeKey == "varc_dark_mode"

Undefined == [JNull EXCEPT !.t = "undefined"]
Returned(st, ret) == [items |-> st, ret |-> ret, threw |-> FALSE]
Threw(st) == [items |-> st, ret |-> Undefined, threw |-> TRUE]

\* full: localStorage.setItem throws QuotaExceededError
Save(st, key, data, full) ==
    IF ~Serializable(data) \/ full
    THEN Returned(st, JBool(FALSE))
    ELSE Returned(Put(st, key, JSONStringify(data)), JBool(TRUE))

\* load that applies the default to the parsed value
LoadOrDefault(st, key, defaultValue) ==
    IF key \notin DOMAIN st \/ st[key] = <<>> THEN defaultValue
    ELSE LET parsed == JSONParse(st[key])
         IN  IF parsed.ok /\ ~Falsy(parsed.value) THEN parsed.value ELSE defaultValue

\* load that answers a text it cannot parse with null
LoadNullOnError(st, key, defaultValue) ==
    IF key \notin DOMAIN st \/ st[key] = <<>> THEN defaultValue
    ELSE LET parsed == JSONParse(st[key])
         IN  IF parsed.ok THEN parsed.value ELSE JNull

\* getItem returns null for an absent key; null and the empty text are falsy
Load(st, key, defaultValue) ==
    IF key \notin DOMAIN st \/ st[key] = <<>> THEN defaultValue
    ELSE LET parsed == JSONParse(st[key])
         IN  IF parsed.ok THEN parsed.value ELSE defaultValue

Remove(st, key) == Returned(Delete(st, key), JBool(TRUE))

RECURSIVE RemoveEach(_, _)
RemoveEach(st, keys) ==
    IF keys = {} THEN st
    ELSE LET key == CHOOSE k \in keys : TRUE
         IN  RemoveEach(Remove(st, key).items, keys \ {key})

ClearAll(st) == Returned(RemoveEach(st, RegistryKeys), Undefined)

\* container[property] = value: a TypeError on null, nothing on another
\* primitive, the property set on an object
Assign(container, property, value) ==
    IF container.t = "object" THEN JObj(Put(container.o, property, value)) ELSE container

SaveAnswerItems(st, questionIndex, answer, full) ==
    LET answers == Load(st, KEYS.USER_ANSWERS, JObj(EmptyMap))
    IN  IF answers.t = "null" THEN Threw(st)
        ELSE Returned(Save(st, KEYS.USER_ANSWERS,
                           Assign(answers, NumeralOf(questionIndex), answer), full).items,
                      Undefined)

SaveQuestionStatusItems(st, questionIndex, status, full) ==
    LET statuses == Load(st, KEYS.QUESTION_STATUS, JObj(EmptyMap))
    IN  IF statuses.t = "null" THEN Threw(st)
        ELSE Returned(Save(st, KEYS.QUESTION_STATUS,
                           Assign(statuses, NumeralOf(questionIndex), JStr(status)), full).items,
                      Undefined)

SaveCurrentQuestionItems(st, index, full) ==
    Returned(Save(st, KEYS.CURRENT_QUESTION, JNum(index), full).items, Undefined)

\* the attempt list of a set is absent, falsy or an array in every store the
\* calls below build; push on anything else throws
SaveRCSetAttemptItems(st, setId, attemptData, t, full) ==
    LET allAttempts == Load(st, KEYS.RC_SET_ATTEMPTS, JObj(EmptyMap))
        id == NumeralOf(setId)
        old == IF allAttempts.t = "object" /\ id \in DOMAIN allAttempts.o
                  /\ ~Falsy(allAttempts.o[id])
               THEN allAttempts.o[id] ELSE JArr(<<>>)
        record == JObj(Put(attemptData.o, "timestamp", JNum(t)))
    IN  IF allAttempts.t # "object" \/ old.t # "array" THEN Threw(st)
        ELSE Returned(Save(st, KEYS.RC_SET_ATTEMPTS,
                           JObj(Put(allAttempts.o, id, JArr(Append(old.a, record)))),
                           full).items,
                      Undefined)

\* ------------------------------------------------------------------------
\* SpecKeys: the callers of save, load, remove and clearAll, the writes derived
\* from save, and the two scripts that write to localStorage directly.
\* ------------------------------------------------------------------------
NestedMap ==
    JObj(("0" :> JNum(0)) @@ ("10" :> JObj(("1" :> JStr("")) @@ ("x" :> JBool(FALSE)))))

JSONValues ==
    {JNull, JBool(FALSE), JNum(0), JNum(7), JStr(""), JStr("0"), JObj(EmptyMap), NestedMap}

\* the data a caller hands to save: JSON values and an object JSON cannot hold
SaveData == JSONValues \cup {JObj(("self" :> Circular))}

\* a key of another script on the same origin, and texts that are no JSON
OtherKey == "test-key"
BadTexts == {<<>>, <<Tok("word", "not"), LBrace>>}

Defaults == {JNull, JStr("fallback")}
SomeAnswers == {JNum(0), JStr("")}

ItemsCall(outcome) ==
    /\ items' = outcome.items
    /\ UNCHANGED <<ls, page, app, nav, results, now>>

CallSave(key, data, full) == ItemsCall(Save(items, key, data, full))
CallRemove(key) == ItemsCall(Remove(items, key))
CallClearAll == ItemsCall(ClearAll(items))
CallSaveAnswer(i, answer, full) == ItemsCall(SaveAnswerItems(items, i, answer, full))
CallSaveQuestionStatus(i, status, full) ==
    ItemsCall(SaveQuestionStatusItems(items, i, status, full))
CallSaveCurrentQuestion(index, full) ==
    ItemsCall(SaveCurrentQuestionItems(items, index, full))
CallSaveRCSetAttempt(setId, full) ==
    /\ KEYS.RC_SET_ATTEMPTS \in DOMAIN items
         => Len(Load(items, KEYS.RC_SET_ATTEMPTS, JObj(EmptyMap)).o[NumeralOf(setId)].a)
              < MaxAttempts
    /\ ItemsCall(SaveRCSetAttemptItems(items, setId, JObj(("score" :> JNum(3))), now, full))

\* landing page: localStorage.setItem('varc_question_type', type), the bare word
SelectQuestionType(type) ==
    ItemsCall(Returned(Put(items, QuestionTypeKey, <<Tok("word", type)>>), Undefined))

\* DarkModeManager: localStorage.setItem(STORAGE_KEY, enabled.toString())
SaveDarkModePreference(enabled) ==
    ItemsCall(Returned(Put(items, DarkModeKey,
                           <<Tok("literal", IF enabled THEN "true" ELSE "false")>>),
                       Undefined))

\* another script stores a text that is no JSON
SetItem(key, text) == ItemsCall(Returned(Put(items, key, text), Undefined))

NextKeys ==
    \/ \E data \in SaveData, full \in BOOLEAN : CallSave(OtherKey, data, full)
    \/ \E key \in {OtherKey, KEYS.USER_ANSWERS} : CallRemove(key)
    \/ CallClearAll
    \/ \E i \in 0..1, answer \in SomeAnswers, full \in BOOLEAN : CallSaveAnswer(i, answer, full)
    \/ \E full \in BOOLEAN : CallSaveQuestionStatus(0, "answered", full)
    \/ \E index \in 0..1, full \in BOOLEAN : CallSaveCurrentQuestion(index, full)
    \/ \E full \in BOOLEAN : CallSaveRCSetAttempt(1, full)
    \/ SelectQuestionType("rc")
    \/ SaveDarkModePreference(TRUE)
    \/ \E text \in BadTexts : SetItem(OtherKey, text)

SpecKeys == Init /\ [][NextKeys]_vars

\* C24: save(key, v) followed by load(key) returns v for every JSON value v,
\* whatever default the caller of load gives: 0, false, the empty string, null
\* and maps with numeric-looking keys come back as they were saved.
C24_RoundTrip ==
    [][ \A data \in JSONValues :
          CallSave(OtherKey, data, FALSE) =>
            /\ Save(items, OtherKey, data, FALSE).ret = JBool(TRUE)
            /\ \A d \in Defaults : Load(items', OtherKey, d) = data ]_vars

\* the nested map with the keys "0" and "10" is stored and loads as saved
C24_Witness ==
    /\ OtherKey \in DOMAIN items
    /\ items[OtherKey] = JSONStringify(NestedMap)
    /\ Load(items, OtherKey, JStr("fallback")) = NestedMap
    /\ Load(items, OtherKey, JStr("fallback")).o["10"].o["1"] = JStr("")

\* the keys a caller may ask for: those stored, one of the registry and one
\* that nobody has written
LoadKeys == DOMAIN items \cup {KEYS.USER_NAME, "nonexistent"}

\* C25: load(key, default) returns the caller's default, null when none is
\* given, when the key is absent or its text is not valid JSON, and the parsed
\* value otherwise; it ends by returning in each of these cases.
C25_LoadDefaults ==
    \A key \in LoadKeys, d \in Defaults :
        IF key \notin DOMAIN items THEN Load(items, key, d) = d
        ELSE IF ~JSONParse(items[key]).ok THEN Load(items, key, d) = d
        ELSE Load(items, key, d) = JSONParse(items[key]).value

\* a text that is no JSON is stored under one key and the bare word of the
\* landing page under another; both load as the default
C25_Witness ==
    /\ OtherKey \in DOMAIN items
    /\ items[OtherKey] = <<Tok("word", "not"), LBrace>>
    /\ Load(items, OtherKey, JStr("fallback")) = JStr("fallback")
    /\ QuestionTypeKey \in DOMAIN items
    /\ Load(items, QuestionTypeKey, JNull) = JNull
    /\ "nonexistent" \notin DOMAIN items

\* a write ended by returning a boolean, and a failed write left the items alone
Reports(outcome, failed) ==
    /\ ~outcome.threw
    /\ outcome.ret.t = "boolean"
    /\ outcome.ret = JBool(~failed)
    /\ failed => outcome.items = items

\* C26: save and the writes derived from it (saveAnswer, saveQuestionStatus,
\* saveCurrentQuestion, saveRCSetAttempt) never throw and return true when the
\* value was stored and false when it was not; a failed write leaves the text
\* stored under the key as it was.
C26_WritesReport ==
    [][ \A full \in BOOLEAN :
          /\ \A data \in SaveData :
               CallSave(OtherKey, data, full)
                 => Reports(Save(items, OtherKey, data, full), full \/ ~Serializable(data))
          /\ \A i \in 0..1, answer \in SomeAnswers :
               CallSaveAnswer(i, answer, full)
                 => Reports(SaveAnswerItems(items, i, answer, full), full)
          /\ CallSaveQuestionStatus(0, "answered", full)
               => Reports(SaveQuestionStatusItems(items, 0, "answered", full), full)
          /\ \A index \in 0..1 :
               CallSaveCurrentQuestion(index, full)
                 => Reports(SaveCurrentQuestionItems(items, index, full), full)
          /\ CallSaveRCSetAttempt(1, full)
               => Reports(SaveRCSetAttemptItems(items, 1, JObj(("score" :> JNum(3))), now, full),
                          full) ]_vars

\* C27: clearAll removes every key the application writes, the keys of the
\* registry, the selected question type and the dark mode preference, and
\* leaves every other key with its text.
C27_ClearAllKeys ==
    [][ CallClearAll =>
          /\ \A key \in RegistryKeys \cup {QuestionTypeKey, DarkModeKey} :
                 key \notin DOMAIN items'
          /\ \A key \in DOMAIN items \ (RegistryKeys \cup {QuestionTypeKey, DarkModeKey}) :
                 key \in DOMAIN items' /\ items'[key] = items[key] ]_vars

\* ------------------------------------------------------------------------
\* Loading the questions.  SpecLoad lets the fetch of data/rc-passages.json
\* answer with the file's questions, with a later edition of the file that has
\* a third set, with a file without questions, or fail; the selection page,
\* which reads the file itself, offers the sets 1 and 3.
\* ------------------------------------------------------------------------
\* getSampleQuestions: eight multiple-choice questions, four for each of the
\* sets 1 and 2
SampleAnswers == <<2, 1, 1, 1, 1, 1, 1, 2>>

GetSampleQuestions ==
    [ i \in 1..8 |->
        [id |-> i, passageId |-> IF i <= 4 THEN 1 ELSE 2, type |-> "MCQ", options |-> 4,
         question |-> "sample", explanation |-> "sample", tags |-> {},
         correctAnswer |-> Choice(SampleAnswers[i]),
         marks |-> Some([positive |-> 3, negative |-> 1])] ]

QuestionsWithThirdSet ==
    Append(Questions,
           [id |-> 4, passageId |-> 3, type |-> "MCQ", options |-> 2,
            question |-> "q4", explanation |-> "e4", tags |-> {"tone"},
            correctAnswer |-> Choice(1),
            marks |-> Some([positive |-> 3, negative |-> 1])])

\* what response.json().questions || [] can be
FileBanks == {Questions, QuestionsWithThirdSet, <<>>}
OfferedSetIds == {1, 3}

\* loadQuestions that keeps the list it obtained to itself
LoadQuestionsFetchedUncached(s, a, list) ==
    World(InitializeStatuses(s, Len(list)), [a EXCEPT !.questions = list])

\* loadQuestions from the assignment of this.questions after the fetch to its end
LoadQuestionsFetched(s, a, list) ==
    World(InitializeStatuses(SaveQuestionsData(s, list), Len(list)),
          [a EXCEPT !.questions = list])

\* init goes on after loadQuestions has obtained list
FetchEnds(list) ==
    /\ page = "quiz"
    /\ app.phase = "loading"
    /\ LET w == LoadQuestionsFetched(ls, app, list)
           r == InitFinish(w.s, w.a, now)
       IN  /\ ls' = r.s
           /\ app' = r.a
           /\ nav' = IF IsSome(r.nav) THEN r.nav ELSE nav
    /\ UNCHANGED <<page, results, now, items>>

\* response.ok
FetchResolved(bank) == FetchEnds(bank)

\* the fetch throws, or the response is not OK
FetchFailed == FetchEnds(GetSampleQuestions)

NextLoad ==
    \/ \E setId \in OfferedSetIds : SelectRCSet(setId)
    \/ \E bank \in FileBanks : FetchResolved(bank)
    \/ FetchFailed
    \/ \E optIndex \in 0..1 : ClickOption(optIndex)
    \/ PressNext
    \/ PressPrevious
    \/ CommitNavigation
    \/ Reload
    \/ LeaveQuiz

SpecLoad == Init /\ [][NextLoad]_vars

\* steps that open quiz.html
OpensQuiz == Reload \/ \E setId \in OfferedSetIds : SelectRCSet(setId)

\* C28: loadQuestions always ends with a list: the sample questions when the
\* fetch throws or the response is not OK, the file's questions otherwise; the
\* list is stored as the questions data, and a page that finds a non-empty
\* stored list uses it and does not fetch.
C28_QuestionsLoad ==
    [][ /\ FetchFailed =>
             /\ GetQuestionsData(ls') = GetSampleQuestions
             /\ app'.questions = FilterByPassage(GetSampleQuestions, app.rcSetId)
             /\ app'.phase # "loading"
        /\ \A bank \in FileBanks :
             FetchResolved(bank) =>
               /\ GetQuestionsData(ls') = bank
               /\ app'.questions = FilterByPassage(bank, app.rcSetId)
               /\ app'.phase # "loading"
        /\ (OpensQuiz /\ Len(GetQuestionsData(ls)) > 0) =>
             /\ app'.phase \in {"ready", "failed"}
             /\ GetQuestionsData(ls') = GetQuestionsData(ls)
             /\ app'.questions = FilterByPassage(GetQuestionsData(ls), app'.rcSetId) ]_vars

\* a session of set 1 runs on the sample questions, which the store holds
C28_Witness ==
    /\ page = "quiz"
    /\ app.phase = "ready"
    /\ app.rcSetId = 1
    /\ GetQuestionsData(ls) = GetSampleQuestions
    /\ Len(app.questions) = 4
    /\ app.currentQuestionIndex = 3

\* steps in which init runs to the check for the questions of the set
InitEnds == OpensQuiz \/ FetchFailed \/ \E bank \in FileBanks : FetchResolved(bank)

\* C29: when the list has no question of the selected set, init tells the user
\* and sends the page back to the selection; it leaves every question status as
\* it reads, starts no per-question timer and no interval, and saves no attempt
\* start time.
C29_NoQuestionsNoSession ==
    [][ (InitEnds /\ app'.phase = "failed") =>
          /\ nav' = NavTo("index", 0, None)
          /\ \A i \in 0..(Len(GetSampleQuestions) - 1) : StatusOf(ls', i) = StatusOf(ls, i)
          /\ ls'.tracking = ls.tracking
          /\ ~app'.timerInterval
          /\ app'.intervals = 0
          /\ ~IsSome(app'.timerStartTime)
          /\ ls'.attemptStart = ls.attemptStart ]_vars

\* set 3 was chosen and the fetch failed: the sample questions are stored, none
\* belongs to the set, and the page waits for the navigation back
C29_Witness ==
    /\ page = "quiz"
    /\ app.phase = "failed"
    /\ app.rcSetId = 3
    /\ GetQuestionsData(ls) = GetSampleQuestions
    /\ app.questions = <<>>
    /\ nav = NavTo("index", 0, None)
    /\ ~IsSome(ls.attemptStart)

\* ------------------------------------------------------------------------
\* Backup.  SpecBackup lets a caller fill the store, complete and reset the
\* test, and import the data exported from one of the stores below.
\* ------------------------------------------------------------------------
GetAllAnswers(s) == s.answers

GetAllStatuses(s) == s.statuses

SaveUserName(s, name) == [s EXCEPT !.userName = Some(name)]

GetUserName(s) == IF IsSome(s.userName) THEN Get(s.userName) ELSE "Student"

\* exportedAt: the time of the export
ExportTestData(s, t) ==
    [ answers |-> GetAllAnswers(s),
      statuses |-> GetAllStatuses(s),
      currentQuestion |-> GetCurrentQuestion(s),
      timerState |-> s.timer,
      testCompleted |-> IsTestCompleted(s),
      userName |-> GetUserName(s),
      exportedAt |-> t ]

\* the guards are those of JavaScript: an object is truthy, null, false and
\* the empty string are not; an exported currentQuestion is never undefined
ImportTestData(s, data) ==
    LET s1 == [s EXCEPT !.answers = data.answers]
        s2 == [s1 EXCEPT !.statuses = data.statuses]
        s3 == SaveCurrentQuestion(s2, data.currentQuestion)
        s4 == IF IsSome(data.timerState) THEN [s3 EXCEPT !.timer = data.timerState] ELSE s3
        s5 == IF data.testCompleted THEN [s4 EXCEPT !.completed = Some(data.testCompleted)]
              ELSE s4
    IN  IF data.userName # "" THEN SaveUserName(s5, data.userName) ELSE s5

\* the stores a backup is taken from: a new one, and one of a completed test
\* with an answer, a position, a timer state and a name
FilledStore ==
    SaveUserName(
        MarkTestCompleted(
            SaveTimerState(
                SaveCurrentQuestion(
                    SaveQuestionStatus(SaveAnswer(EmptyStore, 0, Choice(0)), 0, "answered"),
                    1),
                Some(MaxRemaining), 1)),
        "Test User")

ExportSources == {EmptyStore, FilledStore}
Exports == {ExportTestData(s, 1) : s \in ExportSources}
UserNames == {"", "Imported User"}

CallAnswer(i, answer) ==
    StoreCall(SaveQuestionStatus(SaveAnswer(ls, i, answer), i, "answered"))
CallClearAnswer(i) ==
    StoreCall(SaveQuestionStatus(ClearAnswer(ls, i), i, "not-answered"))
CallSaveCurrent(index) == StoreCall(SaveCurrentQuestion(ls, index))
CallMarkTestCompleted == StoreCall(MarkTestCompleted(ls))
CallSaveUserName(name) == StoreCall(SaveUserName(ls, name))
CallResetTest == StoreCall(ResetTest(ls, 2))
CallImportTestData(data) == StoreCall(ImportTestData(ls, data))

NextBackup ==
    \/ \E i \in 0..1, answer \in {Choice(1), Text(<<"a">>)} : CallAnswer(i, answer)
    \/ \E i \in 0..1 : CallClearAnswer(i)
    \/ \E index \in 0..1 : CallSaveCurrent(index)
    \/ CallMarkTestCompleted
    \/ \E name \in UserNames : CallSaveUserName(name)
    \/ CallResetTest
    \/ \E data \in Exports : CallImportTestData(data)

SpecBackup == Init /\ [][NextBackup]_vars

\* C30: after importTestData(d), for d a result of exportTestData and whatever
\* the store held before, the answers, the statuses, the current question, the
\* completion flag and the user name read from the store are those of d.
C30_ImportRestores ==
    [][ \A data \in Exports :
          CallImportTestData(data) =>
            /\ GetAllAnswers(ls') = data.answers
            /\ GetAllStatuses(ls') = data.statuses
            /\ GetCurrentQuestion(ls') = data.currentQuestion
            /\ IsTestCompleted(ls') = data.testCompleted
            /\ GetUserName(ls') = data.userName ]_vars

\* ------------------------------------------------------------------------
\* Analytics.  An attempt is a record as submitTest saves it: the question
\* snapshots (userAnswer, correctAnswer, tags), the time of each question in
\* ms, the total time in seconds and the counts of the result.  A quotient
\* that need not be whole is the pair of its numerator and denominator.
\* ------------------------------------------------------------------------
Frac(n, d) == [num |-> n, den |-> d]
FracLess(x, y) == x.num * y.den < y.num * x.den

\* Math.round(raw / 1000)
RoundSeconds(raw) == (raw + 500) \div Second

GetQuestionTimesSeconds(attempt) ==
    [ k \in 1..Len(attempt.questions) |->
        LET raw == IF (k - 1) \in DOMAIN attempt.questionTimes
                   THEN attempt.questionTimes[k - 1] ELSE 0
        IN  Max(0, RoundSeconds(raw)) ]

\* answer !== null && answer !== undefined && answer !== ''
HasAnswer(answer) == IsSome(answer) /\ Get(answer) # Text(<<>>)

\* Analytics.getQuestionStatus(attempt, index)
AttemptQuestionStatus(attempt, index) ==
    IF index < 0 \/ index >= Len(attempt.questions) THEN "unattempted"
    ELSE LET question == attempt.questions[index + 1]
         IN  IF ~HasAnswer(question.userAnswer) THEN "unattempted"
             ELSE IF Get(question.userAnswer) = question.correctAnswer THEN "correct"
             ELSE "incorrect"

\* times.map((time, index) => ({ time, index }))
TimeWithIndex(times) == [k \in 1..Len(times) |-> [time |-> times[k], index |-> k - 1]]

\* Array.prototype.sort with (a, b) => a.time - b.time, or b.time - a.time when
\* descending; the sort is stable
RECURSIVE InsertByTime(_, _, _)
InsertByTime(sorted, item, descending) ==
    IF sorted = <<>> THEN <<item>>
    ELSE IF (IF descending THEN item.time > Head(sorted).time
                           ELSE item.time < Head(sorted).time)
         THEN <<item>> \o sorted
         ELSE <<Head(sorted)>> \o InsertByTime(Tail(sorted), item, descending)

RECURSIVE SortByTime(_, _)
SortByTime(list, descending) ==
    IF list = <<>> THEN <<>>
    ELSE LET n == Len(list)
         IN  InsertByTime(SortByTime(SubSeq(list, 1, n - 1), descending), list[n], descending)

SortedTimes(times) ==
    LET sorted == SortByTime(TimeWithIndex(times), FALSE)
    IN  [k \in 1..Len(sorted) |-> sorted[k].time]

GetMedian(values) ==
    IF Len(values) = 0 THEN Frac(0, 1)
    ELSE LET sorted == SortedTimes(values)
             mid == Len(sorted) \div 2
         IN  IF Len(sorted) % 2 = 0 THEN Frac(sorted[mid] + sorted[mid + 1], 2)
             ELSE Frac(sorted[mid + 1], 1)

\* the 0.75 percentile
GetPercentile(values) ==
    IF Len(values) = 0 THEN 0
    ELSE SortedTimes(values)[((Len(values) - 1) * 3) \div 4 + 1]

RECURSIVE SumSeq(_)
SumSeq(values) == IF values = <<>> THEN 0 ELSE Head(values) + SumSeq(Tail(values))

\* filter(item => item.time > 0)
RECURSIVE PositiveTimes(_)
PositiveTimes(list) ==
    IF list = <<>> THEN <<>>
    ELSE (IF Head(list).time > 0 THEN <<Head(list)>> ELSE <<>>) \o PositiveTimes(Tail(list))

\* reduce with >= : among equal times the last one wins
RECURSIVE ReduceSlowestLast(_, _)
ReduceSlowestLast(list, acc) ==
    IF list = <<>> THEN acc
    ELSE ReduceSlowestLast(Tail(list), IF Head(list).time >= acc.time THEN Head(list) ELSE acc)

\* reduce((max, curr) => curr.time > max.time ? curr : max, acc)
RECURSIVE ReduceSlowest(_, _)
ReduceSlowest(list, acc) ==
    IF list = <<>> THEN acc
    ELSE ReduceSlowest(Tail(list), IF Head(list).time > acc.time THEN Head(list) ELSE acc)

RECURSIVE ReduceFastest(_, _)
ReduceFastest(list, acc) ==
    IF list = <<>> THEN acc
    ELSE ReduceFastest(Tail(list), IF Head(list).time < acc.time THEN Head(list) ELSE acc)

\* the sum and the number of the times of the questions with the given status
StatusTimes(attempt, times, status) ==
    LET at == {k \in 1..Len(times) : AttemptQuestionStatus(attempt, k - 1) = status}
        RECURSIVE Sum(_)
        Sum(S) == IF S = {} THEN 0
                  ELSE LET k == CHOOSE x \in S : TRUE IN times[k] + Sum(S \ {k})
    IN  [sum |-> Sum(at), count |-> Cardinality(at)]

SummarizeAttempt(attempt) ==
    LET times == GetQuestionTimesSeconds(attempt)
        totalQuestions == Len(times)
        totalTime == IF IsSome(attempt.totalTime) THEN Max(0, Get(attempt.totalTime))
                     ELSE SumSeq(times)
        timeWithIndex == PositiveTimes(TimeWithIndex(times))
        timeCandidates == IF Len(timeWithIndex) > 0 THEN timeWithIndex ELSE TimeWithIndex(times)
        first == IF Len(timeCandidates) > 0 THEN timeCandidates[1]
                 ELSE [time |-> 0, index |-> 0]
        attempted == attempt.correct + attempt.incorrect
        ofCorrect == StatusTimes(attempt, times, "correct")
        ofIncorrect == StatusTimes(attempt, times, "incorrect")
    IN  [ totalTime |-> totalTime,
          avgTime |-> IF totalQuestions > 0 THEN Frac(totalTime, totalQuestions) ELSE Frac(0, 1),
          medianTime |-> GetMedian(times),
          p75Time |-> GetPercentile(times),
          fastest |-> ReduceFastest(timeCandidates, first),
          slowest |-> ReduceSlowest(timeCandidates, first),
          accuracy |-> IF attempted > 0
                       THEN RoundPercent(attempt.correct,
                                         attempt.correct + attempt.incorrect + attempt.unattempted)
                       ELSE 0,
          correct |-> attempt.correct,
          incorrect |-> attempt.incorrect,
          unattempted |-> attempt.unattempted,
          avgCorrectTime |-> IF ofCorrect.count > 0 THEN Frac(ofCorrect.sum, ofCorrect.count)
                             ELSE Frac(0, 1),
          avgIncorrectTime |-> IF ofIncorrect.count > 0
                               THEN Frac(ofIncorrect.sum, ofIncorrect.count) ELSE Frac(0, 1),
          times |-> times ]

\* ------------------------------------------------------------------------
\* SpecAnalytics: attempts are recorded for set 1, each one of the attempts
\* below, and the analytics are computed over the history so far.
\* ------------------------------------------------------------------------
Snapshot(userAnswer, correctAnswer, tags) ==
    [userAnswer |-> userAnswer, correctAnswer |-> correctAnswer, tags |-> tags]

\* answered right, answered wrong, skipped, emptied text, untagged
SnapRight == Snapshot(Some(Choice(1)), Choice(1), <<"inference">>)
SnapWrong == Snapshot(Some(Choice(0)), Choice(2), <<"inference", "tone">>)
SnapSkipped == Snapshot(None, Choice(1), <<"tone">>)
SnapEmptied == Snapshot(Some(Text(<<>>)), Text(<<"a">>), <<"inference">>)
SnapUntagged == Snapshot(Some(Text(<<"a">>)), Text(<<"a">>), <<>>)

QuestionLists ==
    { <<>>,
      <<SnapRight, SnapWrong>>,
      <<SnapRight, SnapWrong, SnapSkipped>>,
      <<SnapWrong, SnapEmptied, SnapRight>>,
      <<SnapUntagged, SnapRight, SnapRight>>,
      <<SnapWrong, SnapWrong, SnapRight>> }

\* the times of the questions 0, 1, 2 in ms
TimeLists ==
    { <<0, 0, 0>>, <<30000, 45000, 15000>>, <<9000, 2000, 400>>, <<2000, 2000, 0>>,
      <<1500, 7000, 7000>> }

CountWith(questions, status) ==
    Cardinality({k \in 1..Len(questions) :
                   AttemptQuestionStatus([questions |-> questions], k - 1) = status})

\* an attempt as the analytics read it: the fields of the record of an attempt
\* (counts and marks +3 and -1 as calculateResults gives them) and, in each
\* question snapshot, the tags getTagInsights reads
AttemptOf(questions, ms, totalTime) ==
    LET correct == CountWith(questions, "correct")
        incorrect == CountWith(questions, "incorrect")
    IN  [ score |-> Max(0, 3 * correct - incorrect),
          totalMarks |-> 3 * Len(questions),
          correct |-> correct,
          incorrect |-> incorrect,
          unattempted |-> CountWith(questions, "unattempted"),
          totalTime |-> totalTime,
          questionTimes |-> [i \in 0..(Len(questions) - 1) |-> ms[i + 1]],
          questions |-> questions ]

Attempts ==
    {AttemptOf(questions, ms, totalTime) :
        questions \in QuestionLists, ms \in TimeLists, totalTime \in {None, Some(90)}}

MaxHistory == 3

\* the attempts recorded so far, oldest first
History == [k \in 1..Len(GetRCSetAttempts(ls, 1)) |-> GetRCSetAttempts(ls, 1)[k].data]

RecordAttempt(attempt) ==
    /\ Len(GetRCSetAttempts(ls, 1)) < MaxHistory
    /\ StoreCall(SaveRCSetAttempt(ls, 1, attempt, now))

NextAnalytics == \E attempt \in Attempts : RecordAttempt(attempt)

SpecAnalytics == Init /\ [][NextAnalytics]_vars

\* the first index with the largest and with the smallest of the times at the
\* indices in S
FirstWith(times, S, largest) ==
    CHOOSE i \in S :
        /\ \A j \in S : IF largest THEN times[j + 1] <= times[i + 1]
                                   ELSE times[j + 1] >= times[i + 1]
        /\ \A j \in S : times[j + 1] = times[i + 1] => i <= j

\* C33: summarizeAttempt takes slowest and fastest among the questions with a
\* time above zero when there is one and among all questions otherwise; slowest
\* is the first index with the largest time, fastest the first index with the
\* smallest time among them, and times lists the seconds in question order.
C33_SlowestFastest ==
    \A h \in DOMAIN History :
        LET attempt == History[h]
            summary == SummarizeAttempt(attempt)
            times == summary.times
            all == 0..(Len(times) - 1)
            positive == {i \in all : times[i + 1] > 0}
            candidates == IF positive # {} THEN positive ELSE all
        IN  /\ Len(times) = Len(attempt.questions)
            /\ \A i \in all : times[i + 1] = RoundSeconds(attempt.questionTimes[i])
            /\ candidates # {} =>
                 /\ summary.slowest.index = FirstWith(times, candidates, TRUE)
                 /\ summary.fastest.index = FirstWith(times, candidates, FALSE)
                 /\ summary.slowest.time = times[summary.slowest.index + 1]
                 /\ summary.fastest.time = times[summary.fastest.index + 1]

\* an attempt with the times 2, 7, 7 seconds, where the slowest is the first of
\* the equal ones, and one with the times 2, 2, 0, where the question without
\* time is not the fastest
C33_Witness ==
    /\ Len(History) = 2
    /\ SummarizeAttempt(History[1]).times = <<2, 7, 7>>
    /\ SummarizeAttempt(History[1]).slowest.index = 1
    /\ SummarizeAttempt(History[2]).times = <<2, 2, 0>>
    /\ SummarizeAttempt(History[2]).fastest.index = 0

\* ------------------------------------------------------------------------
\* getTagInsights
\* ------------------------------------------------------------------------
\* one entry per tag of each answered, tagged question, in the order of the
\* forEach loops
RECURSIVE QuestionTagEvents(_)
QuestionTagEvents(questions) ==
    IF questions = <<>> THEN <<>>
    ELSE LET question == Head(questions)
             answer == question.userAnswer
             events ==
                 IF Len(question.tags) = 0 \/ ~HasAnswer(answer) THEN <<>>
                 ELSE [k \in 1..Len(question.tags) |->
                          [tag |-> question.tags[k],
                           isCorrect |-> Get(answer) = question.correctAnswer]]
         IN  events \o QuestionTagEvents(Tail(questions))

RECURSIVE TagEvents(_)
TagEvents(attempts) ==
    IF attempts = <<>> THEN <<>>
    ELSE QuestionTagEvents(Head(attempts).questions) \o TagEvents(Tail(attempts))

\* tagStats, its keys in the order of their creation
RECURSIVE TagStats(_, _)
TagStats(events, stats) ==
    IF events = <<>> THEN stats
    ELSE LET event == Head(events)
             known == {k \in DOMAIN stats : stats[k].tag = event.tag}
             created == IF known = {}
                        THEN Append(stats, [tag |-> event.tag, attempted |-> 0, correct |-> 0])
                        ELSE stats
             at == CHOOSE k \in DOMAIN created : created[k].tag = event.tag
             counted == [created EXCEPT
                           ![at].attempted = @ + 1,
                           ![at].correct = IF event.isCorrect THEN @ + 1 ELSE @]
         IN  TagStats(Tail(events), counted)

\* sort((a, b) => a.accuracy - b.accuracy), which is stable
RECURSIVE InsertByAccuracy(_, _)
InsertByAccuracy(sorted, item) ==
    IF sorted = <<>> THEN <<item>>
    ELSE IF item.accuracy < Head(sorted).accuracy THEN <<item>> \o sorted
    ELSE <<Head(sorted)>> \o InsertByAccuracy(Tail(sorted), item)

RECURSIVE SortByAccuracy(_)
SortByAccuracy(list) ==
    IF list = <<>> THEN <<>>
    ELSE InsertByAccuracy(SortByAccuracy(SubSeq(list, 1, Len(list) - 1)), list[Len(list)])

MinTagAttempts == 5

\* the filter without the sort
TagInsightsUnsorted(stats) ==
    SelectSeq([k \in DOMAIN stats |->
                  [tag |-> stats[k].tag,
                   attempted |-> stats[k].attempted,
                   accuracy |-> IF stats[k].attempted > 0
                                THEN RoundPercent(stats[k].correct, stats[k].attempted)
                                ELSE 0]],
              LAMBDA item : item.attempted >= MinTagAttempts)

TagInsightsOf(stats) == SortByAccuracy(TagInsightsUnsorted(stats))

GetTagInsights(attempts) ==
    IF attempts = <<>> THEN <<>>
    ELSE TagInsightsOf(TagStats(TagEvents(attempts), <<>>))

\* the answered snapshots of the history that carry the tag, as (attempt,
\* question) positions
TaggedAnswered(tag) ==
    {pos \in (DOMAIN History) \X (1..3) :
        /\ pos[2] <= Len(History[pos[1]].questions)
        /\ LET question == History[pos[1]].questions[pos[2]]
           IN  /\ HasAnswer(question.userAnswer)
               /\ \E k \in DOMAIN question.tags : question.tags[k] = tag}

TaggedCorrect(tag) ==
    {pos \in TaggedAnswered(tag) :
        LET question == History[pos[1]].questions[pos[2]]
        IN  Get(question.userAnswer) = question.correctAnswer}

AllTags == {"inference", "tone"}

\* C31: getTagInsights returns exactly the tags with at least 5 answered,
\* tagged question snapshots over all attempts, each once, with attempted that
\* number and accuracy round(100 * correct / attempted), in non-decreasing
\* order of accuracy.
C31_TagInsights ==
    LET insights == GetTagInsights(History)
    IN  /\ {insights[k].tag : k \in DOMAIN insights}
             = {tag \in AllTags : Cardinality(TaggedAnswered(tag)) >= 5}
        /\ \A j, k \in DOMAIN insights : insights[j].tag = insights[k].tag => j = k
        /\ \A k \in DOMAIN insights :
             /\ insights[k].attempted = Cardinality(TaggedAnswered(insights[k].tag))
             /\ insights[k].accuracy =
                  RoundPercent(Cardinality(TaggedCorrect(insights[k].tag)),
                               insights[k].attempted)
        /\ \A k \in 1..(Len(insights) - 1) : insights[k].accuracy <= insights[k + 1].accuracy

\* three attempts in which "inference" is counted first, 9 times with 3 right,
\* and "tone" 6 times with none right: tone is returned before inference
C31_Witness ==
    /\ Len(History) = 3
    /\ GetTagInsights(History) =
         << [tag |-> "tone", attempted |-> 6, accuracy |-> 0],
            [tag |-> "inference", attempted |-> 9, accuracy |-> 33] >>

\* ------------------------------------------------------------------------
\* summarizeTypeAttempts
\* ------------------------------------------------------------------------
\* if (!bestScore || score >= bestScore.score): among equal scores the last wins
RECURSIVE BestScoreLast(_, _)
BestScoreLast(attempts, bestScore) ==
    IF attempts = <<>> THEN bestScore
    ELSE LET attempt == Head(attempts)
             better == ~IsSome(bestScore) \/ attempt.score >= Get(bestScore).score
         IN  BestScoreLast(Tail(attempts),
                           IF better
                           THEN Some([score |-> attempt.score, totalMarks |-> attempt.totalMarks])
                           ELSE bestScore)

\* if (!bestScore || score > bestScore.score) bestScore = { score, totalMarks }
RECURSIVE BestScore(_, _)
BestScore(attempts, bestScore) ==
    IF attempts = <<>> THEN bestScore
    ELSE LET attempt == Head(attempts)
             better == ~IsSome(bestScore) \/ attempt.score > Get(bestScore).score
         IN  BestScore(Tail(attempts),
                       IF better
                       THEN Some([score |-> attempt.score, totalMarks |-> attempt.totalMarks])
                       ELSE bestScore)

\* typeof attempt.totalTime === 'number' ? attempt.totalTime : 0
TimeOrZero(attempt) == IF IsSome(attempt.totalTime) THEN Get(attempt.totalTime) ELSE 0

\* null for no attempts, a summary otherwise; the quotients are kept as
\* fractions
SummarizeTypeAttempts(attempts) ==
    IF attempts = <<>> THEN None
    ELSE LET totalScore == SumSeq([k \in DOMAIN attempts |-> attempts[k].score])
             totalCorrect == SumSeq([k \in DOMAIN attempts |-> attempts[k].correct])
             totalIncorrect == SumSeq([k \in DOMAIN attempts |-> attempts[k].incorrect])
             totalUnattempted == SumSeq([k \in DOMAIN attempts |-> attempts[k].unattempted])
             totalTime == SumSeq([k \in DOMAIN attempts |-> TimeOrZero(attempts[k])])
             totalQuestions == totalCorrect + totalIncorrect + totalUnattempted
         IN  Some([ attempts |-> Len(attempts),
                    avgScore |-> Frac(totalScore, Len(attempts)),
                    accuracy |-> IF totalQuestions > 0
                                 THEN RoundPercent(totalCorrect, totalQuestions)
                                 ELSE 0,
                    avgTimePerQuestion |-> IF totalQuestions > 0
                                           THEN Frac(totalTime, totalQuestions)
                                           ELSE Frac(0, 1),
                    bestScore |-> Get(BestScore(attempts, None)) ])

FracEqual(x, y) == x.num * y.den = y.num * x.den

\* the sum of f over the attempts of the history, one attempt after the other
RECURSIVE HistorySum(_, _)
HistorySum(F(_), n) == IF n = 0 THEN 0 ELSE HistorySum(F, n - 1) + F(History[n])

QuestionCount(attempt) == attempt.correct + attempt.incorrect + attempt.unattempted
ScoreOf(attempt) == attempt.score
CorrectOf(attempt) == attempt.correct

\* C32: summarizeTypeAttempts returns null exactly for an empty history;
\* otherwise attempts is the length of the list, avgScore the sum of the scores
\* over the number of attempts, accuracy round(100 * correct / questions) and
\* avgTimePerQuestion time / questions over all attempts (both 0 without
\* questions), and bestScore the score and marks of the first attempt with the
\* largest score.
C32_TypeSummary ==
    LET result == SummarizeTypeAttempts(History)
        n == Len(History)
        questions == HistorySum(QuestionCount, n)
    IN  /\ ~IsSome(result) <=> n = 0
        /\ IsSome(result) =>
             LET summary == Get(result)
                 first == CHOOSE k \in 1..n :
                              /\ \A j \in 1..n : History[j].score <= History[k].score
                              /\ \A j \in 1..(k - 1) : History[j].score < History[k].score
             IN  /\ summary.attempts = n
                 /\ FracEqual(summary.avgScore, Frac(HistorySum(ScoreOf, n), n))
                 /\ IF questions = 0
                    THEN summary.accuracy = 0 /\ summary.avgTimePerQuestion.num = 0
                    ELSE /\ summary.accuracy =
                              RoundPercent(HistorySum(CorrectOf, n), questions)
                         /\ FracEqual(summary.avgTimePerQuestion,
                                      Frac(HistorySum(TimeOrZero, n), questions))
                 /\ summary.bestScore =
                      [score |-> History[first].score, totalMarks |-> History[first].totalMarks]

\* two attempts with the score 2, the first out of 6 marks and the second out
\* of 9: the best score is the one out of 6
C32_Witness ==
    /\ Len(History) = 2
    /\ History[1].score = 2 /\ History[1].totalMarks = 6
    /\ History[2].score = 2 /\ History[2].totalMarks = 9
    /\ Get(SummarizeTypeAttempts(History)).bestScore = [score |-> 2, totalMarks |-> 6]

\* ------------------------------------------------------------------------
\* buildInsights: a message is its kind, the question index it names and the
\* number it shows (seconds or a count); -1 where it has none
\* ------------------------------------------------------------------------
Insight(kind, index, value) == [kind |-> kind, index |-> index, value |-> value]

\* the message about the slowest question
SlowestInsight(attempt, summary) ==
    IF summary.slowest.time > 0
    THEN LET status == AttemptQuestionStatus(attempt, summary.slowest.index)
             kind == IF status = "incorrect" THEN "slowest-incorrect"
                     ELSE IF status = "unattempted" THEN "slowest-unattempted"
                     ELSE "slowest"
         IN  <<Insight(kind, summary.slowest.index, summary.slowest.time)>>
    ELSE <<>>

\* the incorrect question with the least time above zero
FastIncorrectInsight(attempt, summary) ==
    LET incorrect == SelectSeq(TimeWithIndex(summary.times),
                               LAMBDA item :
                                   /\ AttemptQuestionStatus(attempt, item.index) = "incorrect"
                                   /\ item.time > 0)
        sorted == SortByTime(incorrect, FALSE)
    IN  IF Len(sorted) > 0
        THEN <<Insight("fast-incorrect", sorted[1].index, sorted[1].time)>>
        ELSE <<>>

\* avgIncorrectTime < avgCorrectTime * 0.7, else > avgCorrectTime * 1.3
SpeedInsight(summary) ==
    LET cor == summary.avgCorrectTime
        inc == summary.avgIncorrectTime
    IN  IF cor.num > 0 /\ inc.num > 0
        THEN IF 10 * inc.num * cor.den < 7 * cor.num * inc.den
             THEN <<Insight("rushing", -1, -1)>>
             ELSE IF 10 * inc.num * cor.den > 13 * cor.num * inc.den
             THEN <<Insight("stuck", -1, -1)>>
             ELSE <<>>
        ELSE <<>>

UnattemptedInsight(summary) ==
    IF summary.unattempted > 0 THEN <<Insight("unattempted", -1, summary.unattempted)>>
    ELSE <<>>

\* the two largest times against the total time
ConcentrationInsight(summary) ==
    LET totalTime == IF summary.totalTime # 0 THEN summary.totalTime
                     ELSE SumSeq(summary.times)
        sorted == SortByTime(TimeWithIndex(summary.times), TRUE)
        topTwo == SubSeq(sorted, 1, IF Len(sorted) < 2 THEN Len(sorted) ELSE 2)
        topSum == SumSeq([k \in DOMAIN topTwo |-> topTwo[k].time])
    IN  IF totalTime > 0 /\ 2 * topSum >= totalTime
        THEN <<Insight("concentration", -1, -1)>>
        ELSE <<>>

MaxInsights == 4

\* every message that applies, in the order of the pushes
AllInsights(attempt, summary) ==
    IF Len(summary.times) = 0 THEN <<>>
    ELSE SlowestInsight(attempt, summary) \o FastIncorrectInsight(attempt, summary)
           \o SpeedInsight(summary) \o UnattemptedInsight(summary)
           \o ConcentrationInsight(summary)

\* return insights, without the slice
BuildInsightsUncut(attempt, summary) == AllInsights(attempt, summary)

\* return insights.slice(0, 4)
BuildInsights(attempt, summary) ==
    LET insights == AllInsights(attempt, summary)
    IN  SubSeq(insights, 1, IF Len(insights) < MaxInsights THEN Len(insights) ELSE MaxInsights)

\* the place of a message in the fixed order
InsightRank(insight) ==
    CASE insight.kind \in {"slowest", "slowest-incorrect", "slowest-unattempted"} -> 1
      [] insight.kind = "fast-incorrect" -> 2
      [] insight.kind \in {"rushing", "stuck"} -> 3
      [] insight.kind = "unattempted" -> 4
      [] insight.kind = "concentration" -> 5

\* the ranks of the messages that apply to an attempt, from its times and
\* question statuses
ApplicableRanks(attempt) ==
    LET summary == SummarizeAttempt(attempt)
        times == summary.times
        n == Len(times)
        incorrectTimed == {k \in 1..n : /\ times[k] > 0
                                         /\ AttemptQuestionStatus(attempt, k - 1) = "incorrect"}
        correctAll == {k \in 1..n : AttemptQuestionStatus(attempt, k - 1) = "correct"}
        incorrectAll == {k \in 1..n : AttemptQuestionStatus(attempt, k - 1) = "incorrect"}
        corSum == SumSeq([k \in 1..n |-> IF k \in correctAll THEN times[k] ELSE 0])
        incSum == SumSeq([k \in 1..n |-> IF k \in incorrectAll THEN times[k] ELSE 0])
        corCnt == Cardinality(correctAll)
        incCnt == Cardinality(incorrectAll)
        totalTime == IF summary.totalTime # 0 THEN summary.totalTime ELSE SumSeq(times)
        topSum == IF n = 0 THEN 0
                  ELSE IF n = 1 THEN times[1]
                  ELSE LET pairs == {p \in (1..n) \X (1..n) : p[1] # p[2]}
                           best == CHOOSE p \in pairs :
                                     \A q \in pairs :
                                        times[q[1]] + times[q[2]] <= times[p[1]] + times[p[2]]
                       IN  times[best[1]] + times[best[2]]
    IN  IF n = 0 THEN {}
        ELSE {r \in 1..5 :
                \/ r = 1 /\ \E k \in 1..n : times[k] > 0
                \/ r = 2 /\ incorrectTimed # {}
                \/ r = 3 /\ corSum > 0 /\ incSum > 0
                         /\ \/ 10 * incSum * corCnt < 7 * corSum * incCnt
                            \/ 10 * incSum * corCnt > 13 * corSum * incCnt
                \/ r = 4 /\ attempt.unattempted > 0
                \/ r = 5 /\ totalTime > 0 /\ 2 * topSum >= totalTime}

\* C34: buildInsights returns at most 4 messages: of the messages that apply,
\* taken in the order slowest question, fastest incorrect, speed of correct
\* against incorrect, unattempted, time concentration, the first four; and no
\* message for an attempt without questions.
C34_FirstFourInsights ==
    \A h \in DOMAIN History :
        LET attempt == History[h]
            insights == BuildInsights(attempt, SummarizeAttempt(attempt))
            ranks == [k \in DOMAIN insights |-> InsightRank(insights[k])]
            applicable == ApplicableRanks(attempt)
        IN  /\ Len(insights) <= 4
            /\ \A k \in 1..(Len(ranks) - 1) : ranks[k] < ranks[k + 1]
            /\ \A k \in DOMAIN ranks : ranks[k] \in applicable
            /\ \A r \in applicable :
                 (\E k \in DOMAIN ranks : ranks[k] = r)
                    \/ (Len(ranks) = 4 /\ r > ranks[4])
            /\ Len(attempt.questions) = 0 => insights = <<>>

\* the attempt with the times 30, 45 and 15 seconds, one right, one wrong and
\* one skipped: all five messages apply and the time concentration is cut off
C34_Witness ==
    /\ Len(History) = 1
    /\ ApplicableRanks(History[1]) = 1..5
    /\ BuildInsights(History[1], SummarizeAttempt(History[1])) =
         << Insight("slowest-incorrect", 1, 45), Insight("fast-incorrect", 1, 45),
            Insight("stuck", -1, -1), Insight("unattempted", -1, 1) >>

\* ------------------------------------------------------------------------
\* Invariants and frames of the attempt state
\* ------------------------------------------------------------------------
Answered(s, i) == IsSome(GetAnswer(s, i))

\* C35: at every point of a run a question has the status answered or
\* review-answered exactly when an answer is stored for its index.
C35_StatusMatchesAnswer ==
    \A i \in Indices :
        StatusOf(ls, i) \in {"answered", "review-answered"} <=> Answered(ls, i)

\* on the initialised quiz page one question is marked with its answer and
\* another is marked without one
C35_Witness ==
    /\ page = "quiz" /\ app.phase = "ready"
    /\ \E i, j \in Indices :
          /\ StatusOf(ls, i) = "review-answered" /\ Answered(ls, i)
          /\ StatusOf(ls, j) = "review" /\ ~Answered(ls, j)

\* a key press, a button click or an unload of a quiz page whose init waits for
\* the questions: every step of such a page but the end of the load
EventWhileLoading == page = "quiz" /\ app.phase = "loading" /\ ~FetchDone

\* C36: while init waits for the questions no key press, button click or page
\* unload changes the persisted answers, statuses or timer state.
C36_NoEffectWhileLoading ==
    [][ EventWhileLoading =>
          /\ ls'.answers = ls.answers
          /\ ls'.statuses = ls.statuses
          /\ ls'.timer = ls.timer ]_vars

\* C37: every stored answer of a multiple-choice question is an index of one
\* of its options, and no option index is stored for a type-in question,
\* whether the answer came from a click on an option or from a key '1' .. '4'.
C37_AnswerFitsQuestion ==
    (page = "quiz" /\ app.phase = "ready") =>
        \A i \in DOMAIN ls.answers :
            i < Len(app.questions) =>
               LET q == QuestionAt(app.questions, i)
                   answer == ls.answers[i]
               IN  IF q.type = "TITA" THEN answer.kind # "choice"
                   ELSE answer.kind = "choice" /\ answer.index \in 0..(q.options - 1)

\* C38: at every point of a run, page unloads included, a stored timer state
\* holds a number as remainingSeconds, and getTimerState returns null or a
\* number that is not negative.
C38_TimerStateNumeric ==
    /\ IsSome(ls.timer) => IsSome(Get(ls.timer).remainingSeconds)
    /\ LET remaining == GetTimerState(ls, now)
       IN  remaining = Null \/ (remaining.kind = "number" /\ remaining.value >= 0)

\* ------------------------------------------------------------------------
\* SpecReset: the calls of SpecBackup on a store that also holds a selected
\* set, cached questions and attempt records
\* ------------------------------------------------------------------------
SubmittedAttempt == AttemptOf(<<SnapRight, SnapWrong>>, <<2000, 7000>>, Some(9))

CallSaveSelectedRCSet(setId) == StoreCall(SaveSelectedRCSet(ls, setId))
CallSaveQuestionsData == StoreCall(SaveQuestionsData(ls, Questions))

NextReset ==
    \/ NextBackup
    \/ RecordAttempt(SubmittedAttempt)
    \/ \E setId \in SetIds : CallSaveSelectedRCSet(setId)
    \/ CallSaveQuestionsData

SpecReset == Init /\ [][NextReset]_vars

\* C39: resetTest leaves the attempt history of every set, the selected set,
\* the cached questions and the user name as they were.
C39_ResetKeepsTheRest ==
    [][ CallResetTest =>
          /\ \A setId \in SetIds : GetRCSetAttempts(ls', setId) = GetRCSetAttempts(ls, setId)
          /\ ls'.attempts = ls.attempts
          /\ GetSelectedRCSet(ls') = GetSelectedRCSet(ls)
          /\ GetQuestionsData(ls') = GetQuestionsData(ls)
          /\ ls'.userName = ls.userName ]_vars

\* a store just reset (no answer, both statuses not-visited) that holds an
\* attempt record, a selected set, the cached questions and a user name
C39_Witness ==
    /\ ls.answers = EmptyMap
    /\ ls.statuses = [i \in 0..1 |-> "not-visited"]
    /\ ~IsSome(ls.current)
    /\ Len(GetRCSetAttempts(ls, 1)) = 1
    /\ GetSelectedRCSet(ls) = Some(2)
    /\ GetQuestionsData(ls) = Questions
    /\ ls.userName = Some("Imported User")

\* select-option (click or digit key), text input and clear-response
AnswerOperation ==
    \/ \E optIndex \in 0..3 : ClickOption(optIndex)
    \/ \E d \in DigitKeys : PressDigit(d)
    \/ \E value \in TitaInputs : TypeAnswer(value)
    \/ PressClear

\* C40: select-option, text input and clear-response change the answer and the
\* status of no question but the current one; mark-for-review changes no
\* answer, and the status of no question but the current one, except that the
\* next question may go from not-visited to not-answered.
C40_OnlyTheCurrentQuestion ==
    [][ LET current == app.currentQuestionIndex
        IN  /\ AnswerOperation =>
                 \A i \in Indices \ {current} :
                    /\ GetAnswer(ls', i) = GetAnswer(ls, i)
                    /\ StatusOf(ls', i) = StatusOf(ls, i)
            /\ PressReview =>
                 /\ \A i \in Indices : GetAnswer(ls', i) = GetAnswer(ls, i)
                 /\ \A i \in Indices \ {current} :
                       \/ StatusOf(ls', i) = StatusOf(ls, i)
                       \/ /\ i = current + 1
                          /\ StatusOf(ls, i) = "not-visited"
                          /\ StatusOf(ls', i) = "not-answered" ]_vars

\* the first question was answered and marked, and the second one, not seen
\* before, is displayed: marked with its answer, and not-answered without one
C40_Witness ==
    /\ page = "quiz" /\ app.phase = "ready"
    /\ app.currentQuestionIndex = 1
    /\ StatusOf(ls, 0) = "review-answered" /\ GetAnswer(ls, 0) = Some(Choice(0))
    /\ StatusOf(ls, 1) = "not-answered" /\ ~Answered(ls, 1)

====
